---------------------------- MODULE Spec2Model ----------------------------
(***************************************************************************)
(* rust-web-browser: the markup tokenizer (renderer/html/token.rs) and the *)
(* document tree constructor (renderer/html/parser.rs) over the node model *)
(* of renderer/dom/node.rs.                                                *)
(*                                                                         *)
(* A character is a one-character string, a text is a sequence of          *)
(* characters.  Vec/String indices are kept 0-based as in the source: the  *)
(* character at 0-based index i of a text s is s[i + 1].                   *)
(***************************************************************************)
EXTENDS Integers, Sequences, FiniteSets, TLC

VARIABLES
    written,                  \* what the input text was written from
    t,                        \* HtmlTokenizer (the parser's field t)
    tokens,                   \* the Some(token) values returned by next so far
    result,                   \* value returned by the latest call of next
    mode,                     \* HtmlParser.mode
    original_insertion_mode,  \* HtmlParser.original_insertion_mode
    stack_of_open_elements,   \* HtmlParser.stack_of_open_elements (node ids)
    nodes,                    \* the Rc<RefCell<Node>> cells, by id; 1 = document
    token,                    \* construct_tree's local variable token
    pc,                       \* position of the running program
    panic_msg,                \* which panic aborted the run, "" if none
    css,                      \* the run of CssParser::parse_stylesheet
    layout,                   \* the run of LayoutView::new
    url                       \* the Url object and the run of Url::parse

vars == <<written, t, tokens, result, mode, original_insertion_mode,
          stack_of_open_elements, nodes, token, pc, panic_msg, css, layout,
          url>>

parserVars == <<mode, original_insertion_mode, stack_of_open_elements,
                nodes, token>>

rendererVars == <<css, layout>>

\* a part of the program that a run does not use
Idle == [pc |-> "idle"]

(***************************************************************************)
(* Bounds of the model.                                                    *)
(***************************************************************************)
MaxLen == 4        \* longest arbitrary input text
MaxNameLen == 2    \* letters of a fixture tag name
MaxAttrs == 3      \* attributes of a fixture start tag
MaxText == 3       \* characters between <script> and </script>
MaxPieces == 3     \* markup pieces of a document given to the parser

(***************************************************************************)
(* Characters.                                                             *)
(***************************************************************************)
LowerLetters == <<"a", "b", "c", "d", "e", "f", "g", "h", "i", "j", "k", "l", "m",
                  "n", "o", "p", "q", "r", "s", "t", "u", "v", "w", "x", "y", "z">>
UpperLetters == <<"A", "B", "C", "D", "E", "F", "G", "H", "I", "J", "K", "L", "M",
                  "N", "O", "P", "Q", "R", "S", "T", "U", "V", "W", "X", "Y", "Z">>
LowerCase == {LowerLetters[i] : i \in 1..Len(LowerLetters)}
UpperCase == {UpperLetters[i] : i \in 1..Len(UpperLetters)}

is_ascii_uppercase(c) == c \in UpperCase
is_ascii_alphabetic(c) == c \in LowerCase \cup UpperCase

to_ascii_lowercase(c) ==
    IF c \in UpperCase
    THEN LowerLetters[CHOOSE i \in 1..Len(UpperLetters) : UpperLetters[i] = c]
    ELSE c

Lower(s) == [i \in 1..Len(s) |-> to_ascii_lowercase(s[i])]

\* the tag names the program and its tests name
tag_html == <<"h", "t", "m", "l">>
tag_head == <<"h", "e", "a", "d">>
tag_style == <<"s", "t", "y", "l", "e">>
tag_body == <<"b", "o", "d", "y">>
tag_p == <<"p">>
tag_h1 == <<"h", "1">>
tag_h2 == <<"h", "2">>
tag_a == <<"a">>
tag_img == <<"i", "m", "g">>
tag_script == <<"s", "c", "r", "i", "p", "t">>

(***************************************************************************)
(* HtmlToken, Option<HtmlToken> and Attribute.                             *)
(***************************************************************************)
None == [type |-> "None"]
Eof == [type |-> "Eof"]
Char(c) == [type |-> "Char", c |-> c]
StartTag(tag, self_closing, attributes) ==
    [type |-> "StartTag", tag |-> tag, self_closing |-> self_closing,
     attributes |-> attributes]
EndTag(tag) == [type |-> "EndTag", tag |-> tag]

Attribute_new == [name |-> <<>>, value |-> <<>>]

add_char(a, c, is_name) ==
    IF is_name THEN [a EXCEPT !.name = Append(@, c)]
               ELSE [a EXCEPT !.value = Append(@, c)]

(***************************************************************************)
(* HtmlTokenizer.                                                          *)
(***************************************************************************)
HtmlTokenizer_new(html) ==
    [state |-> "Data", pos |-> 0, reconsume |-> FALSE,
     latest_token |-> None, input |-> html, buf |-> <<>>]

\* Outcome of a piece of next: go round the loop again, return a value,
\* or panic.
Cont(tk) == [t |-> tk, ret |-> None, status |-> "continue", msg |-> ""]
Ret(tk, v) == [t |-> tk, ret |-> v, status |-> "return", msg |-> ""]
Panic(tk, m) == [t |-> tk, ret |-> None, status |-> "panic", msg |-> m]

\* self.input[self.pos]; self.pos += 1
consume_next_input(tk) ==
    IF tk.pos >= Len(tk.input)
    THEN [ok |-> FALSE, c |-> "", t |-> tk]
    ELSE [ok |-> TRUE, c |-> tk.input[tk.pos + 1],
          t |-> [tk EXCEPT !.pos = @ + 1]]

\* self.reconsume = false; self.input[self.pos - 1]
reconsume_input(tk) ==
    IF tk.pos = 0 \/ tk.pos - 1 >= Len(tk.input)
    THEN [ok |-> FALSE, c |-> "", t |-> tk]
    ELSE [ok |-> TRUE, c |-> tk.input[tk.pos],
          t |-> [tk EXCEPT !.reconsume = FALSE]]

create_tag(tk, start_tag_token) ==
    [tk EXCEPT !.latest_token =
        IF start_tag_token THEN StartTag(<<>>, FALSE, <<>>) ELSE EndTag(<<>>)]

is_tag(tok) == tok.type \in {"StartTag", "EndTag"}

\* panics unless latest_token is a StartTag or an EndTag
append_tag_name(tk, c) ==
    IF is_tag(tk.latest_token)
    THEN Cont([tk EXCEPT !.latest_token.tag = Append(@, c)])
    ELSE Panic(tk, "append_tag_name")

\* panics unless latest_token is Some
take_latest_token(tk) ==
    IF tk.latest_token = None
    THEN Panic(tk, "take_latest_token")
    ELSE Ret([tk EXCEPT !.latest_token = None], tk.latest_token)

\* panics unless latest_token is a StartTag
start_new_attribute(tk) ==
    IF tk.latest_token.type = "StartTag"
    THEN Cont([tk EXCEPT !.latest_token.attributes = Append(@, Attribute_new)])
    ELSE Panic(tk, "start_new_attribute")

\* panics unless latest_token is a StartTag with at least one attribute
append_attribute(tk, c, is_name) ==
    IF tk.latest_token.type = "StartTag"
       /\ Len(tk.latest_token.attributes) > 0
    THEN LET len == Len(tk.latest_token.attributes) IN
         Cont([tk EXCEPT !.latest_token.attributes[len] =
                  add_char(@, c, is_name)])
    ELSE Panic(tk, "append_attribute")

\* panics unless latest_token is a StartTag
set_self_closing_flag(tk) ==
    IF tk.latest_token.type = "StartTag"
    THEN Cont([tk EXCEPT !.latest_token.self_closing = TRUE])
    ELSE Panic(tk, "set_self_closing_flag")

is_eof(tk) == tk.pos > Len(tk.input)

SetState(tk, s) == [tk EXCEPT !.state = s]
Reconsume(tk, s) == [tk EXCEPT !.state = s, !.reconsume = TRUE]

(***************************************************************************)
(* One arm of the match on self.state in next, applied to the character c  *)
(* that the loop has just read.                                            *)
(***************************************************************************)
\* Data, but a space is skipped instead of returned as a Char token
Data_SkipsSpace(tk, c) ==
    IF c = "<" THEN Cont(SetState(tk, "TagOpen"))
    ELSE IF is_eof(tk) THEN Ret(tk, Eof)
    ELSE IF c = " " /\ tk.pos < Len(tk.input) THEN Cont(tk)
    ELSE Ret(tk, Char(c))

Data(tk, c) ==
    IF c = "<" THEN Cont(SetState(tk, "TagOpen"))
    ELSE IF is_eof(tk) THEN Ret(tk, Eof)
    ELSE Ret(tk, Char(c))

TagOpen(tk, c) ==
    IF c = "/" THEN Cont(SetState(tk, "EndTagOpen"))
    ELSE IF is_ascii_alphabetic(c)
         THEN Cont(create_tag(Reconsume(tk, "TagName"), TRUE))
    ELSE IF is_eof(tk) THEN Ret(tk, Eof)
    ELSE Cont(Reconsume(tk, "Data"))

EndTagOpen(tk, c) ==
    IF is_eof(tk) THEN Ret(tk, Eof)
    ELSE IF is_ascii_alphabetic(c)
         THEN Cont(create_tag(Reconsume(tk, "TagName"), FALSE))
    ELSE Cont(tk)

\* TagName, but an upper-case letter is appended as it is
TagName_KeepsCase(tk, c) ==
    IF c = " " THEN Cont(SetState(tk, "BeforeAttributeName"))
    ELSE IF c = "/" THEN Cont(SetState(tk, "SelfClosingStartTag"))
    ELSE IF c = ">" THEN take_latest_token(SetState(tk, "Data"))
    ELSE IF is_eof(tk) THEN Ret(tk, Eof)
    ELSE append_tag_name(tk, c)

TagName(tk, c) ==
    IF c = " " THEN Cont(SetState(tk, "BeforeAttributeName"))
    ELSE IF c = "/" THEN Cont(SetState(tk, "SelfClosingStartTag"))
    ELSE IF c = ">" THEN take_latest_token(SetState(tk, "Data"))
    ELSE IF is_ascii_uppercase(c)
         THEN append_tag_name(tk, to_ascii_lowercase(c))
    ELSE IF is_eof(tk) THEN Ret(tk, Eof)
    ELSE append_tag_name(tk, c)

BeforeAttributeName(tk, c) ==
    IF c = "/" \/ c = ">" \/ is_eof(tk)
    THEN Cont(Reconsume(tk, "AfterAttributeName"))
    ELSE start_new_attribute(Reconsume(tk, "AttributeName"))

\* AttributeName, but an upper-case letter is appended as it is
AttributeName_KeepsCase(tk, c) ==
    IF c = " " \/ c = "/" \/ c = ">" \/ is_eof(tk)
    THEN Cont(Reconsume(tk, "AfterAttributeName"))
    ELSE IF c = "=" THEN Cont(SetState(tk, "BeforeAttributeValue"))
    ELSE append_attribute(tk, c, TRUE)

AttributeName(tk, c) ==
    IF c = " " \/ c = "/" \/ c = ">" \/ is_eof(tk)
    THEN Cont(Reconsume(tk, "AfterAttributeName"))
    ELSE IF c = "=" THEN Cont(SetState(tk, "BeforeAttributeValue"))
    ELSE IF is_ascii_uppercase(c)
         THEN append_attribute(tk, to_ascii_lowercase(c), TRUE)
    ELSE append_attribute(tk, c, TRUE)

AfterAttributeName(tk, c) ==
    IF c = " " THEN Cont(tk)
    ELSE IF c = "/" THEN Cont(SetState(tk, "SelfClosingStartTag"))
    ELSE IF c = "=" THEN Cont(SetState(tk, "BeforeAttributeValue"))
    ELSE IF c = ">" THEN take_latest_token(SetState(tk, "Data"))
    ELSE IF is_eof(tk) THEN Ret(tk, Eof)
    ELSE start_new_attribute(Reconsume(tk, "AttributeName"))

BeforeAttributeValue(tk, c) ==
    IF c = " " THEN Cont(tk)
    ELSE IF c = "\"" THEN Cont(SetState(tk, "AttributeValueDoubleQuoted"))
    ELSE IF c = "'" THEN Cont(SetState(tk, "AttributeValueSingleQuoted"))
    ELSE Cont(Reconsume(tk, "AttributeValueUnquoted"))

AttributeValueDoubleQuoted(tk, c) ==
    IF c = "\"" THEN Cont(SetState(tk, "AfterAttributeValueQuoted"))
    ELSE IF is_eof(tk) THEN Ret(tk, Eof)
    ELSE append_attribute(tk, c, FALSE)

AttributeValueSingleQuoted(tk, c) ==
    IF c = "'" THEN Cont(SetState(tk, "AfterAttributeValueQuoted"))
    ELSE IF is_eof(tk) THEN Ret(tk, Eof)
    ELSE append_attribute(tk, c, FALSE)

AttributeValueUnquoted(tk, c) ==
    IF c = " " THEN Cont(SetState(tk, "BeforeAttributeName"))
    ELSE IF c = ">" THEN take_latest_token(SetState(tk, "Data"))
    ELSE IF is_eof(tk) THEN Ret(tk, Eof)
    ELSE append_attribute(tk, c, FALSE)

AfterAttributeValueQuoted(tk, c) ==
    IF c = " " THEN Cont(SetState(tk, "BeforeAttributeName"))
    ELSE IF c = "/" THEN Cont(SetState(tk, "SelfClosingStartTag"))
    ELSE IF c = ">" THEN take_latest_token(SetState(tk, "Data"))
    ELSE IF is_eof(tk) THEN Ret(tk, Eof)
    ELSE Cont(Reconsume(tk, "BeforeAttributeName"))

TakeInData(tk) == take_latest_token(SetState(tk, "Data"))

\* SelfClosingStartTag, but the flag is not set
SelfClosingStartTag_NoFlag(tk, c) ==
    IF c = ">" THEN TakeInData(tk)
    ELSE IF is_eof(tk) THEN Ret(tk, Eof)
    ELSE Cont(tk)

SelfClosingStartTag(tk, c) ==
    IF c = ">"
    THEN LET r == set_self_closing_flag(tk)
         IN  IF r.status = "panic" THEN r ELSE TakeInData(r.t)
    ELSE IF is_eof(tk) THEN Ret(tk, Eof)
    ELSE Cont(tk)

ScriptData(tk, c) ==
    IF c = "<" THEN Cont(SetState(tk, "ScriptDataLessThanSign"))
    ELSE IF is_eof(tk) THEN Ret(tk, Eof)
    ELSE Ret(tk, Char(c))

ScriptDataLessThanSign(tk, c) ==
    IF c = "/"
    THEN Cont([tk EXCEPT !.buf = <<>>, !.state = "ScriptDataEndTagOpen"])
    ELSE Ret(Reconsume(tk, "ScriptData"), Char("<"))

ScriptDataEndTagOpen(tk, c) ==
    IF is_ascii_alphabetic(c)
    THEN Cont(create_tag(Reconsume(tk, "ScriptDataEndTagName"), FALSE))
    ELSE Ret(Reconsume(tk, "ScriptData"), Char("<"))

ScriptDataEndTagName(tk, c) ==
    IF c = ">" THEN take_latest_token(SetState(tk, "Data"))
    ELSE IF is_ascii_alphabetic(c)
         THEN append_tag_name([tk EXCEPT !.buf = Append(@, c)],
                              to_ascii_lowercase(c))
    ELSE Cont([tk EXCEPT !.state = "TemporaryBuffer",
                         !.buf = Append(<<"<", "/">> \o @, c)])

TemporaryBuffer(tk, c) ==
    IF Len(tk.buf) = 0
    THEN Ret(Reconsume(tk, "ScriptData"), Char("<"))
    ELSE Ret([tk EXCEPT !.reconsume = TRUE, !.buf = Tail(@)],
             Char(Head(tk.buf)))

\* match self.state { ... }
MatchState(tk, c) ==
    CASE tk.state = "Data" -> Data(tk, c)
      [] tk.state = "TagOpen" -> TagOpen(tk, c)
      [] tk.state = "EndTagOpen" -> EndTagOpen(tk, c)
      [] tk.state = "TagName" -> TagName(tk, c)
      [] tk.state = "BeforeAttributeName" -> BeforeAttributeName(tk, c)
      [] tk.state = "AttributeName" -> AttributeName(tk, c)
      [] tk.state = "AfterAttributeName" -> AfterAttributeName(tk, c)
      [] tk.state = "BeforeAttributeValue" -> BeforeAttributeValue(tk, c)
      [] tk.state = "AttributeValueDoubleQuoted" ->
             AttributeValueDoubleQuoted(tk, c)
      [] tk.state = "AttributeValueSingleQuoted" ->
             AttributeValueSingleQuoted(tk, c)
      [] tk.state = "AttributeValueUnquoted" -> AttributeValueUnquoted(tk, c)
      [] tk.state = "AfterAttributeValueQuoted" ->
             AfterAttributeValueQuoted(tk, c)
      [] tk.state = "SelfClosingStartTag" -> SelfClosingStartTag(tk, c)
      [] tk.state = "ScriptData" -> ScriptData(tk, c)
      [] tk.state = "ScriptDataLessThanSign" -> ScriptDataLessThanSign(tk, c)
      [] tk.state = "ScriptDataEndTagOpen" -> ScriptDataEndTagOpen(tk, c)
      [] tk.state = "ScriptDataEndTagName" -> ScriptDataEndTagName(tk, c)
      [] tk.state = "TemporaryBuffer" -> TemporaryBuffer(tk, c)

\* the loop of next: read or re-read a character, run the arm of the state,
\* until an arm returns or a read or an assertion panics
RECURSIVE next_loop(_)
next_loop(tk) ==
    LET rd == IF tk.reconsume THEN reconsume_input(tk)
                              ELSE consume_next_input(tk)
    IN  IF ~rd.ok THEN Panic(tk, "index out of bounds")
        ELSE LET r == MatchState(rd.t, rd.c)
             IN  IF r.status = "continue" THEN next_loop(r.t) ELSE r

\* next, but the cursor has to be past the end, not at it, for None
next_StrictlyPast(tk) ==
    IF tk.pos > Len(tk.input) THEN Ret(tk, None) ELSE next_loop(tk)

\* HtmlTokenizer::next
next(tk) ==
    IF tk.pos >= Len(tk.input) THEN Ret(tk, None) ELSE next_loop(tk)

(***************************************************************************)
(* Input texts.                                                            *)
(***************************************************************************)
Texts(S, n) == UNION {[1..k -> S] : k \in 0..n}
Prefixes(s) == {SubSeq(s, 1, k) : k \in 0..Len(s)}

Sigma == {"<", ">", "/", " ", "=", "\"", "a", "B"}
ArbitraryInputs == Texts(Sigma, MaxLen)

\* the inputs of the tests of token.rs
TestStartAndEndTag == <<"<", "b", "o", "d", "y", ">",
                        "<", "/", "b", "o", "d", "y", ">">>
TestAttributes ==
    <<"<", "p", " ", "c", "l", "a", "s", "s", "=", "\"", "A", "\"", " ",
      "i", "d", "=", "'", "B", "'", " ", "f", "o", "o", "=", "b", "a", "r",
      ">", "<", "/", "p", ">">>
TestSelfClosingTag == <<"<", "i", "m", "g", " ", "/", ">">>
TestScriptTag ==
    <<"<", "s", "c", "r", "i", "p", "t", ">", "j", "s", " ", "c", "o", "d",
      "e", ";", "<", "/", "s", "c", "r", "i", "p", "t", ">">>
TestInputs == {TestStartAndEndTag, TestAttributes, TestSelfClosingTag,
               TestScriptTag}
TruncatedInputs == UNION {Prefixes(s) : s \in TestInputs}

\* <name></name>
NameLetters == {"b", "D"}
Names == {l \o d : l \in Texts(NameLetters, MaxNameLen) \ {<<>>},
                   d \in {<<>>, <<"1">>}}
TagPair(n) == <<"<">> \o n \o <<">", "<", "/">> \o n \o <<">">>

\* <name a1=v1 a2=v2 ...> with each value double-quoted, single-quoted or
\* unquoted
AttrNames == {<<"c">>, <<"I", "d">>}
DoubleQuotedValues == {<<"A">>, <<"b", " ", "R">>}
SingleQuotedValues == {<<>>, <<"B">>}
UnquotedValues == {<<"b", "R">>}
AttrChoices ==
    {[name |-> n, value |-> v, form |-> "double"] :
        n \in AttrNames, v \in DoubleQuotedValues}
    \cup {[name |-> n, value |-> v, form |-> "single"] :
        n \in AttrNames, v \in SingleQuotedValues}
    \cup {[name |-> n, value |-> v, form |-> "unquoted"] :
        n \in AttrNames, v \in UnquotedValues}
AttrLists(n) == UNION {[1..k -> AttrChoices] : k \in 0..n}

WriteAttr(a) ==
    a.name \o <<"=">> \o
    (CASE a.form = "double" -> <<"\"">> \o a.value \o <<"\"">>
       [] a.form = "single" -> <<"'">> \o a.value \o <<"'">>
       [] a.form = "unquoted" -> a.value)

RECURSIVE WriteAttrs(_)
WriteAttrs(as) ==
    IF as = <<>> THEN <<>>
    ELSE <<" ">> \o WriteAttr(Head(as)) \o WriteAttrs(Tail(as))

\* <name a1=v1 ...( )?(/)?>
Tag(n, as, space, slash) ==
    <<"<">> \o n \o WriteAttrs(as)
    \o (IF space THEN <<" ">> ELSE <<>>)
    \o (IF slash THEN <<"/">> ELSE <<>>) \o <<">">>
SelfClosingNames == {tag_img, <<"B">>}

\* <script>text</script>, text without "<"
ScriptChars == {"j", " ", ";", ">"}
ScriptTexts == Texts(ScriptChars, MaxText)
ScriptInput(text) ==
    <<"<">> \o tag_script \o <<">">> \o text
    \o <<"<", "/">> \o tag_script \o <<">">>

\* end tags written with a space, an attribute or a "/" after the name
EndTagInputs ==
    {<<"<", "/", "p", " ", ">">>,
     <<"<", "/", "p", " ", "c", "l", "a", "s", "s", "=", "x", ">">>,
     <<"<", "/", "p", "/", ">">>}

\* what an input text is written from, and the text
Written ==
    {[kind |-> "text", text |-> x] :
        x \in ArbitraryInputs \cup TruncatedInputs \cup EndTagInputs}
    \cup {[kind |-> "pair", name |-> n] : n \in Names}
    \cup {[kind |-> "tag", name |-> <<"p">>, attrs |-> as,
           space |-> FALSE, slash |-> FALSE] : as \in AttrLists(MaxAttrs)}
    \cup {[kind |-> "tag", name |-> n, attrs |-> as,
           space |-> sp, slash |-> sl] :
            n \in SelfClosingNames, as \in AttrLists(1),
            sp \in BOOLEAN, sl \in BOOLEAN}
    \cup {[kind |-> "script", text |-> x] : x \in ScriptTexts}

Render(w) ==
    CASE w.kind = "text" -> w.text
      [] w.kind = "pair" -> TagPair(w.name)
      [] w.kind = "tag" -> Tag(w.name, w.attrs, w.space, w.slash)
      [] w.kind = "script" -> ScriptInput(w.text)

(***************************************************************************)
(* The tokenizer driven on its own, as by the tests of token.rs: a         *)
(* tokenizer is made for an input text and next is called again and again. *)
(***************************************************************************)
ParserIdle ==
    /\ mode = "Initial"
    /\ original_insertion_mode = "Initial"
    /\ stack_of_open_elements = <<>>
    /\ nodes = <<>>
    /\ token = None

Init ==
    /\ written \in Written
    /\ t = HtmlTokenizer_new(Render(written))
    /\ tokens = <<>>
    /\ result = [type |-> "NoCall"]
    /\ pc = "next"
    /\ panic_msg = ""
    /\ ParserIdle
    /\ css = Idle
    /\ layout = Idle
    /\ url = Idle

\* one call of next by the owner of the tokenizer
Tokenize ==
    /\ pc = "next"
    /\ LET r == next(t) IN
        /\ t' = r.t
        /\ IF r.status = "panic"
           THEN /\ pc' = "panicked"
                /\ panic_msg' = r.msg
                /\ UNCHANGED <<tokens, result>>
           ELSE /\ result' = r.ret
                /\ tokens' = IF r.ret = None THEN tokens
                                             ELSE Append(tokens, r.ret)
                /\ UNCHANGED <<pc, panic_msg>>
    /\ UNCHANGED <<written, parserVars, rendererVars, url>>

Next == Tokenize

Spec == Init /\ [][Next]_vars

(***************************************************************************)
(* The node model (renderer/dom/node.rs).  A node is a cell of nodes,      *)
(* named by its index; 0 is an empty Option or Weak.                       *)
(***************************************************************************)
\* ElementKind::from_str; "Err" is the Err(..) result
ElementKind_from_str(s) ==
    CASE s = tag_html -> "Html"
      [] s = tag_head -> "Head"
      [] s = tag_style -> "Style"
      [] s = tag_script -> "Script"
      [] s = tag_body -> "Body"
      [] s = tag_p -> "P"
      [] s = tag_h1 -> "H1"
      [] s = tag_h2 -> "H2"
      [] OTHER -> "Err"

\* Node::new(kind)
Node_new(kind, element_kind, attributes, text) ==
    [kind |-> kind, element_kind |-> element_kind, attributes |-> attributes,
     text |-> text, parent |-> 0, first_child |-> 0, last_child |-> 0,
     previous_sibling |-> 0, next_sibling |-> 0]

\* Window::new(): the window owns one Document node
Window_new == <<Node_new("Document", "None", <<>>, <<>>)>>
document == 1

\* Node::element_kind
element_kind(n) == IF n.kind = "Element" THEN n.element_kind ELSE "None"

(***************************************************************************)
(* HtmlParser (renderer/html/parser.rs).  The operations work on a record  *)
(* of the program's state and pass a panic on untouched.                   *)
(***************************************************************************)
Panicked(ps) == ps.pc = "panicked"
panic(ps, m) == [ps EXCEPT !.pc = "panicked", !.panic_msg = m]

\* token = self.t.next()
next_token(ps) ==
    IF Panicked(ps) THEN ps
    ELSE LET r == next(ps.t) IN
         IF r.status = "panic"
         THEN [panic(ps, r.msg) EXCEPT !.t = r.t]
         ELSE [ps EXCEPT !.t = r.t, !.token = r.ret, !.result = r.ret,
                         !.tokens = IF r.ret = None THEN @
                                                    ELSE Append(@, r.ret)]

set_mode(ps, m) == IF Panicked(ps) THEN ps ELSE [ps EXCEPT !.mode = m]

\* return self.window.clone()
return_window(ps) == IF Panicked(ps) THEN ps ELSE [ps EXCEPT !.pc = "returned"]

\* the node new content goes under: the top of the stack, else the document
current_node(ps) ==
    IF ps.stack_of_open_elements # <<>>
    THEN ps.stack_of_open_elements[Len(ps.stack_of_open_elements)]
    ELSE document

\* the loop of insert_element that follows next_sibling to the last sibling
RECURSIVE last_sibling(_, _)
last_sibling(ns, n) ==
    IF ns[n].next_sibling # 0 THEN last_sibling(ns, ns[n].next_sibling) ELSE n

\* HtmlParser::insert_element; create_element panics on an unknown tag
insert_element(ps, tag, attributes) ==
    IF Panicked(ps) THEN ps
    ELSE IF ElementKind_from_str(tag) = "Err"
    THEN panic(ps, "failed to convert string to ElementKind")
    ELSE
    LET current == current_node(ps)
        node == Len(ps.nodes) + 1
        new == Node_new("Element", ElementKind_from_str(tag), attributes, <<>>)
        first == ps.nodes[current].first_child
        ns0 == Append(ps.nodes, new)
        ns1 == IF first # 0
               THEN [ns0 EXCEPT
                        ![last_sibling(ps.nodes, first)].next_sibling = node,
                        ![node].previous_sibling = first]
               ELSE [ns0 EXCEPT ![current].first_child = node]
        ns2 == [ns1 EXCEPT ![current].last_child = node,
                           ![node].parent = current]
    IN  [ps EXCEPT !.nodes = ns2,
                   !.stack_of_open_elements = Append(@, node)]

\* HtmlParser::contain_in_stack
contain_in_stack(ps, kind) ==
    \E i \in 1..Len(ps.stack_of_open_elements) :
        element_kind(ps.nodes[ps.stack_of_open_elements[i]]) = kind

\* would HtmlParser::pop_current_node return true
current_node_is(ps, kind) ==
    /\ ps.stack_of_open_elements # <<>>
    /\ element_kind(ps.nodes[current_node(ps)]) = kind

\* self.stack_of_open_elements.pop()
pop(ps) ==
    [ps EXCEPT !.stack_of_open_elements = SubSeq(@, 1, Len(@) - 1)]

\* the loop of pop_until: pop down to and including the first node of kind
RECURSIVE pop_loop(_, _)
pop_loop(ps, kind) ==
    IF ps.stack_of_open_elements = <<>> THEN ps
    ELSE IF current_node_is(ps, kind) THEN pop(ps)
    ELSE pop_loop(pop(ps), kind)

\* pop_until, but only the current node is popped
pop_until_PopsOnce(ps, kind) ==
    IF Panicked(ps) THEN ps
    ELSE IF ~contain_in_stack(ps, kind)
    THEN panic(ps, "stack doesn't have an element")
    ELSE pop(ps)

\* HtmlParser::pop_until; asserts that kind is on the stack
pop_until(ps, kind) ==
    IF Panicked(ps) THEN ps
    ELSE IF ~contain_in_stack(ps, kind)
    THEN panic(ps, "stack doesn't have an element")
    ELSE pop_loop(ps, kind)

\* insert_char, but a space or newline is dropped also when the current
\* node is a Text node
insert_char_DropsSpace(ps, c) ==
    IF Panicked(ps) THEN ps
    ELSE IF ps.stack_of_open_elements = <<>> THEN ps
    ELSE
    LET current == current_node(ps)
        node == Len(ps.nodes) + 1
        new == Node_new("Text", "None", <<>>, <<c>>)
        first == ps.nodes[current].first_child
        ns0 == Append(ps.nodes, new)
        ns1 == IF first # 0
               THEN [ns0 EXCEPT ![first].next_sibling = node,
                                ![node].previous_sibling = first]
               ELSE [ns0 EXCEPT ![current].first_child = node]
        ns2 == [ns1 EXCEPT ![current].last_child = node,
                           ![node].parent = current]
    IN  IF c = "\n" \/ c = " " THEN ps
        ELSE IF ps.nodes[current].kind = "Text"
        THEN [ps EXCEPT !.nodes[current].text = Append(@, c)]
        ELSE [ps EXCEPT !.nodes = ns2,
                        !.stack_of_open_elements = Append(@, node)]

\* insert_char, but the parent's last_child is left as it was
insert_char_KeepsLastChild(ps, c) ==
    IF Panicked(ps) THEN ps
    ELSE IF ps.stack_of_open_elements = <<>> THEN ps
    ELSE
    LET current == current_node(ps)
        node == Len(ps.nodes) + 1
        new == Node_new("Text", "None", <<>>, <<c>>)
        first == ps.nodes[current].first_child
        ns0 == Append(ps.nodes, new)
        ns1 == IF first # 0
               THEN [ns0 EXCEPT ![first].next_sibling = node,
                                ![node].previous_sibling = first]
               ELSE [ns0 EXCEPT ![current].first_child = node]
        ns2 == [ns1 EXCEPT ![node].parent = current]
    IN  IF ps.nodes[current].kind = "Text"
        THEN [ps EXCEPT !.nodes[current].text = Append(@, c)]
        ELSE IF c = "\n" \/ c = " " THEN ps
        ELSE [ps EXCEPT !.nodes = ns2,
                        !.stack_of_open_elements = Append(@, node)]

\* HtmlParser::insert_char
insert_char(ps, c) ==
    IF Panicked(ps) THEN ps
    ELSE IF ps.stack_of_open_elements = <<>> THEN ps
    ELSE
    LET current == current_node(ps)
        node == Len(ps.nodes) + 1
        new == Node_new("Text", "None", <<>>, <<c>>)
        first == ps.nodes[current].first_child
        ns0 == Append(ps.nodes, new)
        ns1 == IF first # 0
               THEN [ns0 EXCEPT ![first].next_sibling = node,
                                ![node].previous_sibling = first]
               ELSE [ns0 EXCEPT ![current].first_child = node]
        ns2 == [ns1 EXCEPT ![current].last_child = node,
                           ![node].parent = current]
    IN  IF ps.nodes[current].kind = "Text"
        THEN [ps EXCEPT !.nodes[current].text = Append(@, c)]
        ELSE IF c = "\n" \/ c = " " THEN ps
        ELSE [ps EXCEPT !.nodes = ns2,
                        !.stack_of_open_elements = Append(@, node)]

IsSpace(tok) == tok.type = "Char" /\ (tok.c = " " \/ tok.c = "\n")
IsStartTag(tok, tag) == tok.type = "StartTag" /\ tok.tag = tag
IsEndTag(tok, tag) == tok.type = "EndTag" /\ tok.tag = tag

(***************************************************************************)
(* One arm of the match on self.mode in construct_tree, applied when the   *)
(* loop holds a token (token.is_some()).                                   *)
(***************************************************************************)
\* Initial, but a character token ends the mode instead of being skipped
Initial_CharEndsMode(ps) ==
    set_mode(ps, "BeforeHtml")

Initial(ps) ==
    IF ps.token.type = "Char" THEN next_token(ps)
    ELSE set_mode(ps, "BeforeHtml")

BeforeHtml(ps) ==
    LET tok == ps.token IN
    IF IsSpace(tok) THEN next_token(ps)
    ELSE IF IsStartTag(tok, tag_html)
    THEN next_token(set_mode(insert_element(ps, tok.tag, tok.attributes),
                             "BeforeHead"))
    ELSE IF tok.type = "Eof" THEN return_window(ps)
    ELSE set_mode(insert_element(ps, tag_html, <<>>), "BeforeHead")

BeforeHead(ps) ==
    LET tok == ps.token IN
    IF IsSpace(tok) THEN next_token(ps)
    ELSE IF IsStartTag(tok, tag_head)
    THEN next_token(set_mode(insert_element(ps, tok.tag, tok.attributes),
                             "InHead"))
    ELSE IF tok.type = "Eof" THEN return_window(ps)
    ELSE set_mode(insert_element(ps, tag_head, <<>>), "InHead")

\* enter_text, but the mode that is left is not recorded
enter_text_ForgetsMode(ps) ==
    IF Panicked(ps) THEN ps
    ELSE [ps EXCEPT !.mode = "Text"]

\* self.original_insertion_mode = self.mode; self.mode = InsertionMode::Text
enter_text(ps) ==
    IF Panicked(ps) THEN ps
    ELSE [ps EXCEPT !.original_insertion_mode = ps.mode, !.mode = "Text"]

\* InHead, but a content start tag leaves head on the stack of open elements
InHead_KeepsHeadOpen(ps) ==
    LET tok == ps.token IN
    IF IsSpace(tok) THEN next_token(insert_char(ps, tok.c))
    ELSE IF IsStartTag(tok, tag_style) \/ IsStartTag(tok, tag_script)
    THEN next_token(enter_text(insert_element(ps, tok.tag, tok.attributes)))
    ELSE IF IsStartTag(tok, tag_body)
    THEN set_mode(pop_until(ps, "Head"), "AfterHead")
    ELSE IF tok.type = "StartTag" /\ ElementKind_from_str(tok.tag) # "Err"
    THEN set_mode(ps, "AfterHead")
    ELSE IF IsEndTag(tok, tag_head)
    THEN pop_until(next_token(set_mode(ps, "AfterHead")), "Head")
    ELSE IF tok.type = "Eof" THEN return_window(ps)
    ELSE next_token(ps)

InHead(ps) ==
    LET tok == ps.token IN
    IF IsSpace(tok) THEN next_token(insert_char(ps, tok.c))
    ELSE IF IsStartTag(tok, tag_style) \/ IsStartTag(tok, tag_script)
    THEN next_token(enter_text(insert_element(ps, tok.tag, tok.attributes)))
    ELSE IF IsStartTag(tok, tag_body)
    THEN set_mode(pop_until(ps, "Head"), "AfterHead")
    ELSE IF tok.type = "StartTag" /\ ElementKind_from_str(tok.tag) # "Err"
    THEN set_mode(pop_until(ps, "Head"), "AfterHead")
    ELSE IF IsEndTag(tok, tag_head)
    THEN pop_until(next_token(set_mode(ps, "AfterHead")), "Head")
    ELSE IF tok.type = "Eof" THEN return_window(ps)
    ELSE next_token(ps)

AfterHead(ps) ==
    LET tok == ps.token IN
    IF IsSpace(tok) THEN next_token(insert_char(ps, tok.c))
    ELSE IF IsStartTag(tok, tag_body)
    THEN set_mode(next_token(insert_element(ps, tok.tag, tok.attributes)),
                  "InBody")
    ELSE IF tok.type = "Eof" THEN return_window(ps)
    ELSE set_mode(insert_element(ps, tag_body, <<>>), "InBody")

\* end tag "html" in InBody, but the token is kept when body is not the
\* current node
end_tag_html_KeepsToken(ps) ==
    IF current_node_is(ps, "Body")
    THEN LET q == set_mode(pop(ps), "AfterBody") IN
         IF current_node_is(q, "Html") THEN pop(q)
         ELSE panic(q, "assertion failed: pop_current_node(Html)")
    ELSE ps

\* InBody, end tag "html": pop body, then (asserted) html, else skip the token
end_tag_html(ps) ==
    IF current_node_is(ps, "Body")
    THEN LET q == set_mode(pop(ps), "AfterBody") IN
         IF current_node_is(q, "Html") THEN pop(q)
         ELSE panic(q, "assertion failed: pop_current_node(Html)")
    ELSE next_token(ps)

\* InBody, end tag "body"
end_tag_body(ps) ==
    LET q == next_token(set_mode(ps, "AfterBody")) IN
    IF Panicked(q) \/ ~contain_in_stack(q, "Body") THEN q
    ELSE pop_until(q, "Body")

\* InBody, end tags "p", "h1", "h2" and "a"
end_tag_content(ps, tag) ==
    IF ElementKind_from_str(tag) = "Err"
    THEN panic(ps, "failed to convert string to ElementKind")
    ELSE pop_until(next_token(ps), ElementKind_from_str(tag))

InBody(ps) ==
    LET tok == ps.token IN
    IF tok.type = "StartTag"
    THEN IF tok.tag \in {tag_p, tag_h1, tag_h2, tag_a}
         THEN next_token(insert_element(ps, tok.tag, tok.attributes))
         ELSE next_token(ps)
    ELSE IF tok.type = "EndTag"
    THEN IF tok.tag = tag_body THEN end_tag_body(ps)
         ELSE IF tok.tag = tag_html THEN end_tag_html(ps)
         ELSE IF tok.tag \in {tag_p, tag_h1, tag_h2, tag_a}
              THEN end_tag_content(ps, tok.tag)
         ELSE next_token(ps)
    ELSE IF tok.type = "Char" THEN next_token(insert_char(ps, tok.c))
    ELSE return_window(ps)

Text(ps) ==
    LET tok == ps.token IN
    IF tok.type = "Eof" THEN return_window(ps)
    ELSE IF IsEndTag(tok, tag_style)
    THEN next_token(set_mode(pop_until(ps, "Style"),
                             ps.original_insertion_mode))
    ELSE IF IsEndTag(tok, tag_script)
    THEN next_token(set_mode(pop_until(ps, "Script"),
                             ps.original_insertion_mode))
    ELSE IF tok.type = "Char" THEN next_token(insert_char(ps, tok.c))
    ELSE set_mode(ps, ps.original_insertion_mode)

AfterBody(ps) ==
    LET tok == ps.token IN
    IF tok.type = "Char" THEN next_token(ps)
    ELSE IF IsEndTag(tok, tag_html)
    THEN next_token(set_mode(ps, "AfterAfterBody"))
    ELSE IF tok.type = "Eof" THEN return_window(ps)
    ELSE set_mode(ps, "InBody")

AfterAfterBody(ps) ==
    LET tok == ps.token IN
    IF tok.type = "Char" THEN next_token(ps)
    ELSE IF tok.type = "Eof" THEN return_window(ps)
    ELSE set_mode(ps, "InBody")

(***************************************************************************)
(* Documents given to the parser: up to MaxPieces pieces of markup.        *)
(***************************************************************************)
Open(n) == <<"<">> \o n \o <<">">>
Close(n) == <<"<", "/">> \o n \o <<">">>

Pieces ==
    {Open(tag_html), Close(tag_html), Open(tag_head), Close(tag_head),
     Open(tag_body), Close(tag_body), Open(tag_p), Close(tag_p),
     Open(tag_p) \o Close(tag_p), Open(tag_h1), Close(tag_h1), Open(tag_h2),
     Close(tag_h2),
     Open(tag_a), Close(tag_a), Open(tag_script), Close(tag_script),
     Close(tag_style), <<"x">>, <<" ">>}

\* longer documents: text with spaces around it in script, style and p,
\* and text that arrives when the end tag "html" has emptied the stack
LongDocuments ==
    {<<Open(tag_script), <<" ">>, <<"x">>, <<" ">>, Close(tag_script)>>,
     <<Open(tag_style), <<" ">>, <<"x">>, Close(tag_style)>>,
     <<Open(tag_body), Close(tag_html), Open(tag_p) \o Close(tag_p), <<"x">>>>,
     <<Open(tag_body), Close(tag_html), Open(tag_script), <<"x">>>>,
     <<Open(tag_p), <<" ">>, <<"x">>, <<" ">>>>}

WrittenDocuments ==
    {[kind |-> "document", pieces |-> ps] :
        ps \in UNION {[1..k -> Pieces] : k \in 0..MaxPieces}}
    \cup {[kind |-> "document", pieces |-> ps] : ps \in LongDocuments}

RECURSIVE Concat(_)
Concat(ss) == IF ss = <<>> THEN <<>> ELSE Head(ss) \o Concat(Tail(ss))

(***************************************************************************)
(* The parser run on a document: HtmlParser::new(HtmlTokenizer::new(html)) *)
(* and then construct_tree, one turn of its loop at a time.                *)
(***************************************************************************)
State ==
    [t |-> t, tokens |-> tokens, result |-> result, mode |-> mode,
     original_insertion_mode |-> original_insertion_mode,
     stack_of_open_elements |-> stack_of_open_elements, nodes |-> nodes,
     token |-> token, pc |-> pc, panic_msg |-> panic_msg]

Becomes(ps) ==
    /\ t' = ps.t
    /\ tokens' = ps.tokens
    /\ result' = ps.result
    /\ mode' = ps.mode
    /\ original_insertion_mode' = ps.original_insertion_mode
    /\ stack_of_open_elements' = ps.stack_of_open_elements
    /\ nodes' = ps.nodes
    /\ token' = ps.token
    /\ pc' = ps.pc
    /\ panic_msg' = ps.panic_msg
    /\ UNCHANGED <<written, rendererVars, url>>

InitParse ==
    /\ written \in WrittenDocuments
    /\ t = HtmlTokenizer_new(Concat(written.pieces))
    /\ tokens = <<>>
    /\ result = [type |-> "NoCall"]
    /\ mode = "Initial"
    /\ original_insertion_mode = "Initial"
    /\ stack_of_open_elements = <<>>
    /\ nodes = Window_new
    /\ token = None
    /\ pc = "construct_tree"
    /\ panic_msg = ""
    /\ css = Idle
    /\ layout = Idle
    /\ url = Idle

\* let mut token = self.t.next();
ConstructTree ==
    /\ pc = "construct_tree"
    /\ Becomes(next_token([State EXCEPT !.pc = "loop"]))

InMode(m) == pc = "loop" /\ token # None /\ mode = m

\* while token.is_some() fails: self.window.clone() is returned
ReturnWindow ==
    /\ pc = "loop"
    /\ token = None
    /\ Becomes(return_window(State))

InitialMode == InMode("Initial") /\ Becomes(Initial(State))
BeforeHtmlMode == InMode("BeforeHtml") /\ Becomes(BeforeHtml(State))
BeforeHeadMode == InMode("BeforeHead") /\ Becomes(BeforeHead(State))
InHeadMode == InMode("InHead") /\ Becomes(InHead(State))
AfterHeadMode == InMode("AfterHead") /\ Becomes(AfterHead(State))
InBodyMode == InMode("InBody") /\ Becomes(InBody(State))
TextMode == InMode("Text") /\ Becomes(Text(State))
AfterBodyMode == InMode("AfterBody") /\ Becomes(AfterBody(State))
AfterAfterBodyMode == InMode("AfterAfterBody") /\ Becomes(AfterAfterBody(State))

NextParse ==
    \/ ConstructTree
    \/ ReturnWindow
    \/ InitialMode
    \/ BeforeHtmlMode
    \/ BeforeHeadMode
    \/ InHeadMode
    \/ AfterHeadMode
    \/ InBodyMode
    \/ TextMode
    \/ AfterBodyMode
    \/ AfterAfterBodyMode

SpecParse == InitParse /\ [][NextParse]_vars

(***************************************************************************)
(* CssTokenizer (renderer/css/token.rs).  The outcomes Ret and Panic are   *)
(* those of the markup tokenizer; Loops is a loop that never ends.         *)
(***************************************************************************)
DigitChars == <<"0", "1", "2", "3", "4", "5", "6", "7", "8", "9">>
Digits == {DigitChars[i] : i \in 1..Len(DigitChars)}

\* char::to_digit(10)
to_digit(c) == (CHOOSE i \in 1..Len(DigitChars) : DigitChars[i] = c) - 1

\* char::is_alphanumeric, on the ASCII characters of the inputs
is_alphanumeric(c) == is_ascii_alphabetic(c) \/ c \in Digits

\* a CssToken; value is <<>> for the tokens that carry none
CssToken(type, value) == [type |-> type, value |-> value]

CssTokenizer_new(css_text) == [pos |-> 0, input |-> css_text]

Loops(tk) == [t |-> tk, ret |-> None, status |-> "loop", msg |-> ""]

\* the element of a set of one element; The({e : r \in {f}}) is e with r
\* standing for the outcome f of a call made once
The(S) == CHOOSE x \in S : TRUE

\* the loop of consume_string_token, s being the string made so far
RECURSIVE consume_string_token(_, _)
consume_string_token(tk, s) ==
    IF tk.pos >= Len(tk.input) THEN Ret(tk, s)
    ELSE LET q == [tk EXCEPT !.pos = @ + 1] IN
         IF q.pos >= Len(q.input) THEN Panic(q, "index out of bounds")
         ELSE LET c == q.input[q.pos + 1] IN
              IF c = "\"" \/ c = "'" THEN Ret(q, s)
              ELSE consume_string_token(q, Append(s, c))

\* the loop of consume_numeric_token; the f64 made is kept as its integer
\* part and the fraction digits added to it
RECURSIVE consume_numeric_token(_, _, _)
consume_numeric_token(tk, num, floating) ==
    IF tk.pos >= Len(tk.input) THEN Ret(tk, num)
    ELSE LET c == tk.input[tk.pos + 1]
             q == [tk EXCEPT !.pos = @ + 1] IN
         IF c \in Digits
         THEN consume_numeric_token(q,
                  IF floating
                  THEN [num EXCEPT !.fraction = Append(@, to_digit(c))]
                  ELSE [num EXCEPT !.integer = @ * 10 + to_digit(c)],
                  floating)
         ELSE IF c = "." THEN consume_numeric_token(q, num, TRUE)
         ELSE Ret(tk, num)

\* the loop of consume_ident_token, s being the name made so far
RECURSIVE consume_ident_token(_, _)
consume_ident_token(tk, s) ==
    LET q == [tk EXCEPT !.pos = @ + 1] IN
    IF q.pos >= Len(q.input) THEN Panic(q, "index out of bounds")
    ELSE LET c == q.input[q.pos + 1] IN
         IF is_alphanumeric(c) \/ c = "-" \/ c = "_"
         THEN consume_ident_token(q, Append(s, c))
         ELSE Ret(q, s)

\* consume_ident_token, then self.pos -= 1 and the self.pos += 1 that ends
\* next: the token of the given type holding the name read from tk.pos
ident_like(tk, type) ==
    The({IF r.status = "panic" THEN r ELSE Ret(r.t, CssToken(type, r.ret)) :
            r \in {consume_ident_token(tk, <<tk.input[tk.pos + 1]>>)}})

\* the arm for "@" of CssTokenizer::next: the three characters after it
\* are read one by one, as far as the && chain goes
at_keyword(tk) ==
    LET len == Len(tk.input)
        at(i) == tk.input[tk.pos + i + 1]
        delim == Ret([tk EXCEPT !.pos = @ + 1], CssToken("Delim", "@"))
    IN  IF tk.pos + 1 >= len THEN Panic(tk, "index out of bounds")
        ELSE IF ~is_ascii_alphabetic(at(1)) THEN delim
        ELSE IF tk.pos + 2 >= len THEN Panic(tk, "index out of bounds")
        ELSE IF ~is_alphanumeric(at(2)) THEN delim
        ELSE IF tk.pos + 3 >= len THEN Panic(tk, "index out of bounds")
        ELSE IF ~is_alphanumeric(at(3)) THEN delim
        ELSE ident_like([tk EXCEPT !.pos = @ + 1], "AtKeyword")

\* CssTokenizer::next
RECURSIVE css_next(_)
css_next(tk) ==
    IF tk.pos >= Len(tk.input) THEN Ret(tk, None)
    ELSE
    LET c == tk.input[tk.pos + 1]
        q == [tk EXCEPT !.pos = @ + 1]
    IN  CASE c = "(" -> Ret(q, CssToken("OpenParenthesis", <<>>))
          [] c = ")" -> Ret(q, CssToken("CloseParenthesis", <<>>))
          [] c = "," \/ c = "." -> Ret(q, CssToken("Delim", c))
          [] c = ":" -> Ret(q, CssToken("Colon", <<>>))
          [] c = ";" -> Ret(q, CssToken("SemiColon", <<>>))
          [] c = "{" -> Ret(q, CssToken("OpenCurly", <<>>))
          [] c = "}" -> Ret(q, CssToken("CloseCurly", <<>>))
          [] c = " " \/ c = "\n" -> css_next(q)
          [] c = "\"" \/ c = "'" ->
                The({IF r.status = "panic" THEN r
                     ELSE Ret([r.t EXCEPT !.pos = @ + 1],
                              CssToken("StringToken", r.ret)) :
                        r \in {consume_string_token(tk, <<>>)}})
          [] c \in Digits ->
                The({Ret([r.t EXCEPT !.pos = @ + 2],
                         CssToken("Number", r.ret)) :
                        r \in {consume_numeric_token(
                                   tk, [integer |-> 0, fraction |-> <<>>],
                                   FALSE)}})
          [] c = "#" -> ident_like(tk, "HashToken")
          [] c = "@" -> at_keyword(tk)
          [] c = "-" \/ is_ascii_alphabetic(c) \/ c = "_" ->
                ident_like(tk, "Ident")
          [] OTHER -> Panic(tk, "not supported yet")

(***************************************************************************)
(* The style tokenizer driven on its own: a CssTokenizer is made for a     *)
(* style text and next is called until it returns None.                    *)
(***************************************************************************)
MaxCssLen == 4     \* longest style text given to the tokenizer alone

CssSigma == {"1", ".", ";", "a", " ", "@", "#", "'"}

CssTexts ==
    {[kind |-> "css_text", text |-> x] : x \in Texts(CssSigma, MaxCssLen)}

InitCssTokens ==
    /\ written \in CssTexts
    /\ css = [pc |-> "next", t |-> CssTokenizer_new(written.text),
              msg |-> ""]
    /\ tokens = <<>>
    /\ layout = Idle
    /\ url = Idle
    /\ t = HtmlTokenizer_new(<<>>)
    /\ result = [type |-> "NoCall"]
    /\ pc = "idle"
    /\ panic_msg = ""
    /\ ParserIdle

\* one call of next by the owner of the tokenizer
CssNext ==
    /\ css.pc = "next"
    /\ LET r == css_next(css.t) IN
        IF r.status = "panic"
        THEN /\ css' = [css EXCEPT !.pc = "panicked", !.t = r.t,
                                   !.msg = r.msg]
             /\ UNCHANGED tokens
        ELSE IF r.ret = None
        THEN /\ css' = [css EXCEPT !.pc = "exhausted", !.t = r.t]
             /\ UNCHANGED tokens
        ELSE /\ css' = [css EXCEPT !.t = r.t]
             /\ tokens' = Append(tokens, r.ret)
    /\ UNCHANGED <<written, t, result, pc, panic_msg, parserVars, layout,
                   url>>

NextCssTokens == CssNext

SpecCssTokens == InitCssTokens /\ [][NextCssTokens]_vars

(***************************************************************************)
(* CssParser (renderer/css/cssom.rs).  self.t is a Peekable over the       *)
(* tokenizer: peek is the outcome of next on the tokenizer as it stands,   *)
(* and the next that follows a peek leaves the tokenizer where that        *)
(* outcome left it.  The operations take the tokenizer and give an outcome *)
(* holding the tokenizer after them.                                       *)
(***************************************************************************)
Selector(kind, name) == [kind |-> kind, name |-> name]
QualifiedRule_new ==
    [selector |-> Selector("TypeSelector", <<>>), declarations |-> <<>>]
Declaration_new == [property |-> <<>>, value |-> CssToken("Ident", <<>>)]

\* consume_ident: the name of the next token, an identifier
consume_ident(tk) ==
    The({IF r.status = "panic" THEN r
         ELSE IF r.ret.type = "Ident" THEN Ret(r.t, r.ret.value)
         ELSE Panic(r.t, "consume_ident") : r \in {css_next(tk)}})

\* consume_component_value: the next token
consume_component_value(tk) ==
    The({IF r.status = "panic" THEN r
         ELSE IF r.ret = None THEN Panic(r.t, "consume_component_value")
         ELSE r : r \in {css_next(tk)}})

\* while self.t.peek() != Some(&CssToken::OpenCurly) { self.t.next(); }
\* and then the selector sel is returned
RECURSIVE skip_to_open_curly(_, _)
skip_to_open_curly(tk, sel) ==
    The({IF r.status = "panic" THEN r
         ELSE IF r.ret.type = "OpenCurly" THEN Ret(tk, sel)
         ELSE IF r.ret = None THEN Loops(tk)
         ELSE skip_to_open_curly(r.t, sel) : r \in {css_next(tk)}})

\* selector_of, but the "#" stays in the name of an IdSelector
selector_of_KeepsHash(r, pk) ==
    LET tok == r.ret IN
    IF r.status = "panic" THEN r
    ELSE IF tok = None THEN Panic(r.t, "should have a token but got None")
    ELSE IF tok.type = "HashToken"
    THEN Ret(r.t, Selector("IdSelector", tok.value))
    ELSE IF tok.type = "Delim"
    THEN IF tok.value = "."
         THEN The({IF i.status = "panic" THEN i
                   ELSE Ret(i.t, Selector("ClassSelector", i.ret)) :
                      i \in {consume_ident(r.t)}})
         ELSE Panic(r.t, "Parse error: unexpected token")
    ELSE IF tok.type \in {"Ident", "AtKeyword"}
    THEN LET sel == IF tok.type = "Ident"
                    THEN Selector("TypeSelector", tok.value)
                    ELSE Selector("UnknownSelector", <<>>)
         IN  IF tok.type = "Ident" /\ pk.status = "panic" THEN pk
             ELSE IF tok.type = "Ident" /\ pk.ret.type # "Colon"
             THEN Ret(r.t, sel)
             ELSE skip_to_open_curly(r.t, sel)
    ELSE IF pk.status = "panic" THEN pk
    ELSE Ret(pk.t, Selector("UnknownSelector", <<>>))

\* the arms of the match of consume_selector, r being the outcome of
\* self.t.next() and pk that of the self.t.peek() after it
selector_of(r, pk) ==
    LET tok == r.ret IN
    IF r.status = "panic" THEN r
    ELSE IF tok = None THEN Panic(r.t, "should have a token but got None")
    ELSE IF tok.type = "HashToken"
    THEN Ret(r.t, Selector("IdSelector", Tail(tok.value)))
    ELSE IF tok.type = "Delim"
    THEN IF tok.value = "."
         THEN The({IF i.status = "panic" THEN i
                   ELSE Ret(i.t, Selector("ClassSelector", i.ret)) :
                      i \in {consume_ident(r.t)}})
         ELSE Panic(r.t, "Parse error: unexpected token")
    ELSE IF tok.type \in {"Ident", "AtKeyword"}
    THEN LET sel == IF tok.type = "Ident"
                    THEN Selector("TypeSelector", tok.value)
                    ELSE Selector("UnknownSelector", <<>>)
         IN  IF tok.type = "Ident" /\ pk.status = "panic" THEN pk
             ELSE IF tok.type = "Ident" /\ pk.ret.type # "Colon"
             THEN Ret(r.t, sel)
             ELSE skip_to_open_curly(r.t, sel)
    ELSE IF pk.status = "panic" THEN pk
    ELSE Ret(pk.t, Selector("UnknownSelector", <<>>))

\* CssParser::consume_selector
consume_selector(tk) ==
    The({The({selector_of(r, pk) : pk \in {css_next(r.t)}}) :
            r \in {css_next(tk)}})

\* consume_declaration, but the colon is not consumed before the value
consume_declaration_ColonAsValue(tk) ==
    The({The({The({
        IF pk.status = "panic" THEN pk
        ELSE IF pk.ret = None THEN Ret(tk, None)
        ELSE IF i.status = "panic" THEN i
        ELSE IF v.status = "panic" THEN v
        ELSE Ret(v.t, [property |-> i.ret, value |-> v.ret])
      : v \in {consume_component_value(i.t)}})
      : i \in {consume_ident(tk)}})
      : pk \in {css_next(tk)}})

\* CssParser::consume_declaration; None is no declaration.  pk is the
\* peek, i the consume_ident, colon the self.t.next() and v the
\* consume_component_value of the source.
consume_declaration(tk) ==
    The({The({The({The({
        IF pk.status = "panic" THEN pk
        ELSE IF pk.ret = None THEN Ret(tk, None)
        ELSE IF i.status = "panic" THEN i
        ELSE IF colon.status = "panic" THEN colon
        ELSE IF colon.ret.type # "Colon" THEN Ret(colon.t, None)
        ELSE IF v.status = "panic" THEN v
        ELSE Ret(v.t, [Declaration_new EXCEPT !.property = i.ret,
                                              !.value = v.ret])
      : v \in {consume_component_value(colon.t)}})
      : colon \in {css_next(i.t)}})
      : i \in {consume_ident(tk)}})
      : pk \in {css_next(tk)}})

\* the loop of consume_list_of_declarations
RECURSIVE consume_list_of_declarations(_, _)
consume_list_of_declarations(tk, declarations) ==
    The({
        IF pk.status = "panic" THEN pk
        ELSE IF pk.ret = None THEN Ret(tk, declarations)
        ELSE IF pk.ret.type = "CloseCurly" THEN Ret(pk.t, declarations)
        ELSE IF pk.ret.type = "Ident"
        THEN The({IF d.status = "panic" THEN d
                  ELSE consume_list_of_declarations(d.t,
                           IF d.ret = None THEN declarations
                                           ELSE Append(declarations, d.ret)) :
                     d \in {consume_declaration(tk)}})
        ELSE consume_list_of_declarations(pk.t, declarations)
      : pk \in {css_next(tk)}})

\* the loop of consume_qualified_rule; None is no rule
RECURSIVE consume_qualified_rule(_, _)
consume_qualified_rule(tk, rule) ==
    The({
        IF pk.status = "panic" THEN pk
        ELSE IF pk.ret = None THEN Ret(tk, None)
        ELSE IF pk.ret.type = "OpenCurly"
        THEN The({IF d.status = "panic" THEN d
                  ELSE Ret(d.t, [rule EXCEPT !.declarations = d.ret]) :
                     d \in {consume_list_of_declarations(pk.t, <<>>)}})
        ELSE The({IF sel.status # "return" THEN sel
                  ELSE consume_qualified_rule(
                           sel.t, [rule EXCEPT !.selector = sel.ret]) :
                     sel \in {consume_selector(tk)}})
      : pk \in {css_next(tk)}})

StyleSheet_new == [rules |-> <<>>]

\* CssParser::new(CssTokenizer::new(css_text)), parse_stylesheet not yet run
CssParser_new(css_text) ==
    [pc |-> "parse_stylesheet", t |-> CssTokenizer_new(css_text),
     sheet |-> StyleSheet_new, rules |-> <<>>, msg |-> ""]

\* one turn of the loop of consume_list_of_rules, pk being the peek and r
\* the consume_qualified_rule
consume_list_of_rules(cp) ==
    The({The({
        IF pk.status = "panic"
        THEN [cp EXCEPT !.pc = "panicked", !.t = pk.t, !.msg = pk.msg]
        ELSE IF pk.ret = None THEN [cp EXCEPT !.pc = "set_rules"]
        ELSE IF r.status = "panic"
        THEN [cp EXCEPT !.pc = "panicked", !.t = r.t, !.msg = r.msg]
        ELSE IF r.status = "loop" THEN [cp EXCEPT !.pc = "looping", !.t = r.t]
        ELSE IF pk.ret.type = "AtKeyword" THEN [cp EXCEPT !.t = r.t]
        ELSE IF r.ret = None THEN [cp EXCEPT !.pc = "set_rules", !.t = r.t]
        ELSE [cp EXCEPT !.t = r.t, !.rules = Append(@, r.ret)]
      : r \in {consume_qualified_rule(cp.t, QualifiedRule_new)}})
      : pk \in {css_next(cp.t)}})

(***************************************************************************)
(* Style texts given to the parser, and the run of parse_stylesheet.       *)
(***************************************************************************)
MaxCssNameLen == 2   \* characters of a fixture identifier
MaxCssPieces == 3    \* pieces of a style text

CssNames ==
    {<<c>> \o r : c \in {"p", "_", "-"},
                  r \in Texts({"r", "1"}, MaxCssNameLen - 1)}

CssPieces ==
    {<<"a">>, <<"x">>, <<" ">>, <<"{">>, <<"}">>, <<":">>, <<";">>, <<",">>,
     <<".">>, <<"@">>, <<"@", "i", "m", "p", "o", "r", "t">>, <<"#", "i">>,
     <<"1">>, <<"'", "s", "'">>, <<"(">>, <<")">>, <<"*">>}

\* what may follow the ":" of a selector base:pseudo
PseudoClasses ==
    {<<"x">>, <<"x", " ">>, <<"x", "(", "p", ")">>, <<":", "x">>}

\* the forms of a prelude: #name, .name, name and name:pseudo
Preludes ==
    {[form |-> f, name |-> n, pseudo |-> <<>>] :
        f \in {"id", "class", "type"}, n \in CssNames}
    \cup {[form |-> "pseudo", name |-> n, pseudo |-> ps] :
            n \in CssNames, ps \in PseudoClasses}

\* a rule with a declaration that lacks its colon: what is written before
\* and after that declaration, and whether a second rule follows
NoColonRules ==
    {[kind |-> "nocolon", before |-> b, semicolon |-> sc, after |-> a,
      second |-> n] :
        b \in BOOLEAN, sc \in BOOLEAN, a \in BOOLEAN, n \in BOOLEAN}
    \ {[kind |-> "nocolon", before |-> b, semicolon |-> FALSE,
         after |-> TRUE, second |-> n] : b \in BOOLEAN, n \in BOOLEAN}

CssWritten ==
    {[kind |-> "rule", selector |-> s, property |-> pr, value |-> v] :
        s \in CssNames, pr \in CssNames, v \in CssNames}
    \cup NoColonRules
    \cup {[kind |-> "prelude", prelude |-> pl, space |-> sp,
           property |-> <<"p">>, value |-> v] :
            pl \in Preludes, sp \in BOOLEAN, v \in {<<"p">>, <<"_">>}}
    \cup {[kind |-> "sheet", pieces |-> ps] :
            ps \in UNION {[1..k -> CssPieces] : k \in 0..MaxCssPieces}}

\* the style text T { P: V; } of a rule, or the pieces of a sheet in a row
WritePrelude(pl) ==
    CASE pl.form = "id" -> <<"#">> \o pl.name
      [] pl.form = "class" -> <<".">> \o pl.name
      [] pl.form = "type" -> pl.name
      [] pl.form = "pseudo" -> pl.name \o <<":">> \o pl.pseudo

CssRender(w) ==
    CASE w.kind = "rule" ->
            w.selector \o <<" ", "{", " ">> \o w.property \o <<":", " ">>
            \o w.value \o <<";", " ", "}">>
      [] w.kind = "prelude" ->
            WritePrelude(w.prelude) \o (IF w.space THEN <<" ">> ELSE <<>>)
            \o <<"{">> \o w.property \o <<":">> \o w.value \o <<"}">>
      [] w.kind = "nocolon" ->
            <<"p", " ", "{", " ">>
            \o (IF w.before THEN <<"a", ":", " ", "x", ";", " ">> ELSE <<>>)
            \o <<"c", "o", "l", "o", "r">>
            \o (IF w.semicolon THEN <<";">> ELSE <<>>)
            \o (IF w.after THEN <<" ", "a", ":", " ", "p", ";">> ELSE <<>>)
            \o <<" ", "}">>
            \o (IF w.second
                THEN <<" ", "h", "1", " ", "{", " ", "a", ":", " ", "b",
                       " ", "}">>
                ELSE <<>>)
      [] w.kind = "sheet" -> Concat(w.pieces)

InitCss ==
    /\ written \in CssWritten
    /\ css = CssParser_new(CssRender(written))
    /\ layout = Idle
    /\ url = Idle
    /\ t = HtmlTokenizer_new(<<>>)
    /\ tokens = <<>>
    /\ result = [type |-> "NoCall"]
    /\ pc = "idle"
    /\ panic_msg = ""
    /\ ParserIdle

CssStep(cp) ==
    /\ css' = cp
    /\ UNCHANGED <<written, t, tokens, result, pc, panic_msg, parserVars,
                   layout, url>>

\* let mut sheet = StyleSheet::new();
ParseStylesheet ==
    /\ css.pc = "parse_stylesheet"
    /\ CssStep([css EXCEPT !.pc = "consume_list_of_rules",
                           !.sheet = StyleSheet_new, !.rules = <<>>])

ConsumeListOfRules ==
    /\ css.pc = "consume_list_of_rules"
    /\ CssStep(consume_list_of_rules(css))

\* sheet.set_rules(...); sheet
SetRules ==
    /\ css.pc = "set_rules"
    /\ CssStep([css EXCEPT !.pc = "returned", !.sheet.rules = css.rules])

NextCss ==
    \/ ParseStylesheet
    \/ ConsumeListOfRules
    \/ SetRules

SpecCss == InitCss /\ [][NextCss]_vars


(***************************************************************************)
(* LayoutObject and its style (renderer/layout/layout_object.rs).  An      *)
(* Option is <<>> for None and <<v>> for Some(v).  ComputedStyle, Color    *)
(* and DisplayType are not in this source tree; they follow the            *)
(* description of the style properties.                                    *)
(***************************************************************************)
kw_background_color ==
    <<"b", "a", "c", "k", "g", "r", "o", "u", "n", "d", "-",
      "c", "o", "l", "o", "r">>
kw_color == <<"c", "o", "l", "o", "r">>
kw_display == <<"d", "i", "s", "p", "l", "a", "y">>
kw_block == <<"b", "l", "o", "c", "k">>
kw_inline == <<"i", "n", "l", "i", "n", "e">>
kw_none == <<"n", "o", "n", "e">>
kw_red == <<"r", "e", "d">>
kw_blue == <<"b", "l", "u", "e">>
kw_white == <<"w", "h", "i", "t", "e">>
kw_black == <<"b", "l", "a", "c", "k">>
kw_class == <<"c", "l", "a", "s", "s">>
kw_id == <<"i", "d">>

\* ElementKind::to_string: the tag name of the kind
ElementKind_to_string(kind) ==
    CASE kind = "Html" -> tag_html
      [] kind = "Head" -> tag_head
      [] kind = "Style" -> tag_style
      [] kind = "Script" -> tag_script
      [] kind = "Body" -> tag_body
      [] kind = "P" -> tag_p
      [] kind = "H1" -> tag_h1
      [] kind = "H2" -> tag_h2

\* ComputedStyle::new: every property unset
ComputedStyle_new ==
    [background_color |-> <<>>, color |-> <<>>, display |-> <<>>,
     font_size |-> <<>>]

\* Color::from_name and Color::from_code with the caller's fallback for
\* Err: a named colour, or a code of "#" and six hexadecimal digits
Color_from(tok, fallback) ==
    LET hex == Digits \cup {"a", "b", "c", "d", "e", "f"} IN
    IF tok.type = "Ident"
    THEN IF tok.value \in {kw_red, kw_blue, kw_white, kw_black}
         THEN tok.value ELSE fallback
    ELSE IF /\ Len(tok.value) = 7
            /\ \A i \in 2..7 : to_ascii_lowercase(tok.value[i]) \in hex
         THEN tok.value ELSE fallback

\* DisplayType::from_str with DisplayNone for Err, as cascading_style has it
DisplayType_from_str(v) ==
    CASE v = kw_block -> "Block"
      [] v = kw_inline -> "Inline"
      [] OTHER -> "DisplayNone"

\* LayoutObject::new
LayoutPoint_new(x, y) == [x |-> x, y |-> y]
LayoutSize_new(width, height) == [width |-> width, height |-> height]

LayoutObject_new(node, parent_obj) ==
    [kind |-> "Block", node |-> node, first_child |-> 0, next_sibling |-> 0,
     parent |-> parent_obj, style |-> ComputedStyle_new,
     point |-> LayoutPoint_new(0, 0), size |-> LayoutSize_new(0, 0)]

\* LayoutObject::is_node_selected, n being the node of the object
is_node_selected(n, selector) ==
    LET has(name) == \E i \in 1..Len(n.attributes) :
                        /\ n.attributes[i].name = name
                        /\ n.attributes[i].value = selector.name
    IN  /\ n.kind = "Element"
        /\ CASE selector.kind = "TypeSelector" ->
                    ElementKind_to_string(n.element_kind) = selector.name
             [] selector.kind = "ClassSelector" -> has(kw_class)
             [] selector.kind = "IdSelector" -> has(kw_id)
             [] OTHER -> FALSE

\* the body of the loop of cascading_style, but a property that is set
\* keeps its value
cascade_declaration_FirstWins(style, declaration) ==
    LET v == declaration.value
        colour == v.type \in {"Ident", "HashToken"}
    IN  CASE declaration.property = kw_background_color /\ colour
                 /\ style.background_color = <<>> ->
                [style EXCEPT !.background_color = <<Color_from(v, kw_white)>>]
          [] declaration.property = kw_color /\ colour
                 /\ style.color = <<>> ->
                [style EXCEPT !.color = <<Color_from(v, kw_black)>>]
          [] declaration.property = kw_display /\ v.type = "Ident"
                 /\ style.display = <<>> ->
                [style EXCEPT !.display = <<DisplayType_from_str(v.value)>>]
          [] OTHER -> style

\* the body of the loop of LayoutObject::cascading_style
cascade_declaration(style, declaration) ==
    LET v == declaration.value
        colour == v.type \in {"Ident", "HashToken"}
    IN  CASE declaration.property = kw_background_color /\ colour ->
                [style EXCEPT !.background_color = <<Color_from(v, kw_white)>>]
          [] declaration.property = kw_color /\ colour ->
                [style EXCEPT !.color = <<Color_from(v, kw_black)>>]
          [] declaration.property = kw_display /\ v.type = "Ident" ->
                [style EXCEPT !.display = <<DisplayType_from_str(v.value)>>]
          [] OTHER -> style

\* LayoutObject::cascading_style
RECURSIVE cascading_style(_, _)
cascading_style(style, declarations) ==
    IF declarations = <<>> THEN style
    ELSE cascading_style(cascade_declaration(style, Head(declarations)),
                         Tail(declarations))

\* for rule in &cssom.rules { if is_node_selected { cascading_style } }
RECURSIVE cascade_rules(_, _, _)
cascade_rules(style, n, rules) ==
    IF rules = <<>> THEN style
    ELSE cascade_rules(
             IF is_node_selected(n, Head(rules).selector)
             THEN cascading_style(style, Head(rules).declarations)
             ELSE style,
             n, Tail(rules))

\* ComputedStyle::defaulting: an unset property takes the parent's value,
\* or the built-in default when there is no parent style
defaulting(style, n, parent_style) ==
    LET builtin == [background_color |-> kw_white, color |-> kw_black,
                    display |-> IF n.kind = "Text" THEN "Inline" ELSE "Block",
                    font_size |-> "Medium"]
        inherited(f) == IF parent_style # <<>> /\ parent_style[1][f] # <<>>
                        THEN parent_style[1][f] ELSE <<builtin[f]>>
    IN  [f \in DOMAIN style |-> IF style[f] # <<>> THEN style[f]
                                                  ELSE inherited(f)]

\* LayoutObject::update_kind; it panics for a Document node
update_kind(n, style) ==
    CASE n.kind = "Text" -> "Text"
      [] n.kind = "Element" -> style.display[1]
      [] OTHER -> "panic"

\* create_layout_object, but display: none does not remove the object
create_layout_object_IgnoresDisplay(ns, node, parent_obj, objs, cssom) ==
    IF node = 0 THEN <<>>
    ELSE
    LET parent_style == IF parent_obj = 0 THEN <<>>
                        ELSE <<objs[parent_obj].style>>
        style == defaulting(cascade_rules(ComputedStyle_new, ns[node],
                                          cssom.rules),
                            ns[node], parent_style)
    IN  <<[LayoutObject_new(node, parent_obj) EXCEPT
               !.style = style,
               !.kind = IF style.display[1] = "DisplayNone" THEN "Block"
                        ELSE update_kind(ns[node], style)]>>

\* create_layout_object: Some(the new object) or None; objs are the
\* objects made so far, 0 is no node and no parent
create_layout_object(ns, node, parent_obj, objs, cssom) ==
    IF node = 0 THEN <<>>
    ELSE
    LET parent_style == IF parent_obj = 0 THEN <<>>
                        ELSE <<objs[parent_obj].style>>
        style == defaulting(cascade_rules(ComputedStyle_new, ns[node],
                                          cssom.rules),
                            ns[node], parent_style)
    IN  IF style.display[1] = "DisplayNone" THEN <<>>
        ELSE <<[LayoutObject_new(node, parent_obj) EXCEPT
                   !.style = style, !.kind = update_kind(ns[node], style)]>>

\* the while loop of build_layout_tree: the first node, from node on along
\* next_sibling, for which create_layout_object gives an object
RECURSIVE target_node(_, _, _, _, _)
target_node(ns, node, parent_obj, objs, cssom) ==
    IF node = 0 THEN 0
    ELSE IF create_layout_object(ns, node, parent_obj, objs, cssom) # <<>>
    THEN node
    ELSE target_node(ns, ns[node].next_sibling, parent_obj, objs, cssom)

\* build_layout_tree: the objects made so far with those of the subtree
\* added, and the object returned (0 for None)
RECURSIVE build_layout_tree(_, _, _, _, _)
RECURSIVE build_from_next(_, _, _, _, _)
build_layout_tree(ns, node, parent_obj, objs, cssom) ==
    LET n == target_node(ns, node, parent_obj, objs, cssom) IN
    IF n = 0 THEN [objs |-> objs, ret |-> 0]
    ELSE
    LET layout_object == Len(objs) + 1
        made == Append(objs,
                    create_layout_object(ns, n, parent_obj, objs, cssom)[1])
        original_first_child == ns[n].first_child
        original_next_sibling == ns[n].next_sibling
        fc0 == build_layout_tree(ns, original_first_child, layout_object,
                                 made, cssom)
        ns0 == build_layout_tree(ns, original_next_sibling, 0, fc0.objs,
                                 cssom)
        first_child ==
            IF fc0.ret = 0 /\ original_first_child # 0
            THEN build_from_next(ns, ns[original_first_child].next_sibling,
                                 layout_object, ns0.objs, cssom)
            ELSE [objs |-> ns0.objs, ret |-> fc0.ret]
        next_sibling ==
            IF ns0.ret = 0 /\ original_next_sibling # 0
            THEN build_from_next(ns, ns[original_next_sibling].next_sibling,
                                 0, first_child.objs, cssom)
            ELSE [objs |-> first_child.objs, ret |-> ns0.ret]
    IN  [objs |-> [next_sibling.objs EXCEPT
                      ![layout_object].first_child = first_child.ret,
                      ![layout_object].next_sibling = next_sibling.ret],
         ret |-> layout_object]

\* the loops of build_layout_tree that try the later siblings in turn
build_from_next(ns, original_dom_node, parent_obj, objs, cssom) ==
    LET r == build_layout_tree(ns, original_dom_node, parent_obj, objs, cssom)
    IN  IF r.ret = 0 /\ original_dom_node # 0
        THEN build_from_next(ns, ns[original_dom_node].next_sibling,
                             parent_obj, r.objs, cssom)
        ELSE r

\* get_target_element_node (renderer/dom/api.rs): 0 for None
RECURSIVE get_target_element_node(_, _, _)
get_target_element_node(ns, node, kind) ==
    IF node = 0 THEN 0
    ELSE IF element_kind(ns[node]) = kind THEN node
    ELSE LET result1 == get_target_element_node(ns, ns[node].first_child, kind)
             result2 == get_target_element_node(ns, ns[node].next_sibling, kind)
         IN  IF result1 = 0 THEN result2 ELSE result1

(***************************************************************************)
(* The size pass.  The values of crate::constants are not part of the      *)
(* sources; the model is scaled down to small values, and what is shown    *)
(* of the sizes does not depend on them.  The sizes are i64 and far from   *)
(* its limits, where wrapping_rem and wrapping_div are % and \div.          *)
(***************************************************************************)
CHAR_WIDTH == 2
CHAR_HEIGHT_WITH_PADDING == 3
CONTENT_AREA_WIDTH == 5

\* the while loop of the Block arm of compute_size: the height summed
\* from child on, height being the sum so far
RECURSIVE block_height(_, _, _, _)
block_height(objs, child, height, previous_child_kind) ==
    IF child = 0 THEN height
    ELSE block_height(
             objs, objs[child].next_sibling,
             IF previous_child_kind = "Block" \/ objs[child].kind = "Block"
             THEN height + objs[child].size.height ELSE height,
             objs[child].kind)

\* the while loop of the Inline arm of compute_size
RECURSIVE inline_size(_, _, _)
inline_size(objs, child, size) ==
    IF child = 0 THEN size
    ELSE inline_size(objs, objs[child].next_sibling,
             LayoutSize_new(size.width + objs[child].size.width,
                            size.height + objs[child].size.height))

\* text_size, but a started line is not counted
text_size_RoundsDown(text, font_size) ==
    LET ratio == CASE font_size = "Medium" -> 1
                   [] font_size = "XLarge" -> 2
                   [] font_size = "XXLarge" -> 3
        width == CHAR_WIDTH * ratio * Len(text)
        line_num == width \div CONTENT_AREA_WIDTH
    IN  IF width > CONTENT_AREA_WIDTH
        THEN LayoutSize_new(CONTENT_AREA_WIDTH,
                            CHAR_HEIGHT_WITH_PADDING * ratio * line_num)
        ELSE LayoutSize_new(width, CHAR_HEIGHT_WITH_PADDING * ratio)

\* text_size, but the text wraps when its width at ratio 1 is wider than
\* the content area, and the lines are counted from that width
text_size_Unscaled(text, font_size) ==
    LET ratio == CASE font_size = "Medium" -> 1
                   [] font_size = "XLarge" -> 2
                   [] font_size = "XXLarge" -> 3
        width == CHAR_WIDTH * Len(text)
        line_num == IF width % CONTENT_AREA_WIDTH = 0
                    THEN width \div CONTENT_AREA_WIDTH
                    ELSE (width \div CONTENT_AREA_WIDTH) + 1
    IN  IF width > CONTENT_AREA_WIDTH
        THEN LayoutSize_new(CONTENT_AREA_WIDTH,
                            CHAR_HEIGHT_WITH_PADDING * ratio * line_num)
        ELSE LayoutSize_new(width, CHAR_HEIGHT_WITH_PADDING * ratio)

\* the Text arm of compute_size for the text of the node
text_size(text, font_size) ==
    LET ratio == CASE font_size = "Medium" -> 1
                   [] font_size = "XLarge" -> 2
                   [] font_size = "XXLarge" -> 3
        width == CHAR_WIDTH * ratio * Len(text)
        line_num == IF width % CONTENT_AREA_WIDTH = 0
                    THEN width \div CONTENT_AREA_WIDTH
                    ELSE (width \div CONTENT_AREA_WIDTH) + 1
    IN  IF width > CONTENT_AREA_WIDTH
        THEN LayoutSize_new(CONTENT_AREA_WIDTH,
                            CHAR_HEIGHT_WITH_PADDING * ratio * line_num)
        ELSE LayoutSize_new(width, CHAR_HEIGHT_WITH_PADDING * ratio)

\* compute_size, but the height of a Block is the sum of the heights of
\* all its children
compute_size_AddsAll(objs, ns, o, parent_size) ==
    LET obj == objs[o]
        size ==
            CASE obj.kind = "Block" ->
                    LayoutSize_new(parent_size.width,
                                   inline_size(objs, obj.first_child,
                                               LayoutSize_new(0, 0)).height)
              [] obj.kind = "Inline" ->
                    inline_size(objs, obj.first_child, LayoutSize_new(0, 0))
              [] obj.kind = "Text" ->
                    IF ns[obj.node].kind = "Text"
                    THEN text_size(ns[obj.node].text, obj.style.font_size[1])
                    ELSE LayoutSize_new(0, 0)
    IN  [objs EXCEPT ![o].size = size]

\* LayoutObject::compute_size of object o: the objects with its size set
compute_size(objs, ns, o, parent_size) ==
    LET obj == objs[o]
        size ==
            CASE obj.kind = "Block" ->
                    LayoutSize_new(parent_size.width,
                                   block_height(objs, obj.first_child, 0,
                                                "Block"))
              [] obj.kind = "Inline" ->
                    inline_size(objs, obj.first_child, LayoutSize_new(0, 0))
              [] obj.kind = "Text" ->
                    IF ns[obj.node].kind = "Text"
                    THEN text_size(ns[obj.node].text, obj.style.font_size[1])
                    ELSE LayoutSize_new(0, 0)
    IN  [objs EXCEPT ![o].size = size]

\* LayoutView::calculate_node_size; sized stands for the objects after the
\* first compute_size, children for them after the pass over the children
\* and siblings for them after the pass over the later siblings
RECURSIVE calculate_node_size(_, _, _, _)
calculate_node_size(objs, ns, node, parent_size) ==
    IF node = 0 THEN objs
    ELSE The({The({The({
        compute_size(siblings, ns, node, parent_size)
      : siblings \in {calculate_node_size(children, ns,
                                          children[node].next_sibling,
                                          parent_size)}})
      : children \in {calculate_node_size(sized, ns, sized[node].first_child,
                                          sized[node].size)}})
      : sized \in {IF objs[node].kind = "Block"
                   THEN compute_size(objs, ns, node, parent_size)
                   ELSE objs}})

\* LayoutView::new(root, cssom), not yet run
LayoutView_new(root, cssom) ==
    [pc |-> "get_target_element_node", node |-> root, cssom |-> cssom,
     body_root |-> 0, objs |-> <<>>, root |-> 0]

(***************************************************************************)
(* Node trees and style sheets given to LayoutView::new.  The content of   *)
(* body is written as the depths and labels of its nodes in document       *)
(* order: depth 1 is a child of body, a node one deeper than the node      *)
(* before it is that node's first child.                                   *)
(***************************************************************************)
MaxLayoutNodes == 4   \* nodes below body
MaxRules == 2         \* rules of a style sheet of the cascade
MaxTextLen == 10      \* characters of a Text node that is measured

\* the nodes are numbered as made: Document, html, head, body
body == document + 3

\* the node table Document > html > [head, body > content]
Dom(depth, label) ==
    LET k == Len(depth)
        par(i) == IF depth[i] = 1 THEN 0
                  ELSE CHOOSE j \in 1..(i - 1) :
                          /\ depth[j] = depth[i] - 1
                          /\ \A m \in (j + 1)..(i - 1) : depth[m] >= depth[i]
        kids(x) == {i \in 1..k : par(i) = x}
        lo(S) == IF S = {} THEN 0
                 ELSE body + (CHOOSE i \in S : \A j \in S : i <= j)
        hi(S) == IF S = {} THEN 0
                 ELSE body + (CHOOSE i \in S : \A j \in S : i >= j)
        new(l) ==
            CASE l = "text" -> Node_new("Text", "None", <<>>, <<"x">>)
              [] l = "h1" -> Node_new("Element", "H1", <<>>, <<>>)
              [] l = "p" -> Node_new("Element", "P", <<>>, <<>>)
              [] l = "p.c" ->
                    Node_new("Element", "P",
                             <<[name |-> kw_class, value |-> <<"c">>]>>, <<>>)
        content(i) ==
            [new(label[i]) EXCEPT
                !.parent = body + par(i),
                !.first_child = lo(kids(i)),
                !.last_child = hi(kids(i)),
                !.next_sibling = lo({j \in kids(par(i)) : j > i}),
                !.previous_sibling =
                    IF lo(kids(par(i))) = body + i THEN 0
                    ELSE lo(kids(par(i)))]
        base ==
            <<[Window_new[document] EXCEPT !.first_child = 2, !.last_child = 2],
              [Node_new("Element", "Html", <<>>, <<>>) EXCEPT
                  !.parent = 1, !.first_child = 3, !.last_child = body],
              [Node_new("Element", "Head", <<>>, <<>>) EXCEPT
                  !.parent = 2, !.next_sibling = body],
              [Node_new("Element", "Body", <<>>, <<>>) EXCEPT
                  !.parent = 2, !.previous_sibling = 3,
                  !.first_child = lo(kids(0)), !.last_child = hi(kids(0))]>>
    IN  base \o [i \in 1..k |-> content(i)]

\* the node table construct_tree makes when a start tag arrives after
\* </body>: insert_element puts the element of kind after under html, so
\* that it is the next sibling of body
DomAfterBody(depth, label, after) ==
    LET d == Dom(depth, label)
        node == Len(d) + 1
    IN  Append([d EXCEPT ![body].next_sibling = node,
                         ![2].last_child = node],
               [Node_new("Element", after, <<>>, <<>>) EXCEPT
                   !.parent = 2, !.previous_sibling = 3])

\* body > p > Text, or body > Text, the Text node holding len characters
DomText(depth, label, len) ==
    [Dom(depth, label) EXCEPT ![body + Len(depth)].text = [i \in 1..len |-> "x"]]

\* the depths and labels of at most MaxLayoutNodes nodes; a Text node has
\* no children
TreeShapes ==
    UNION {{[depth |-> d, label |-> l] :
               d \in {e \in [1..k -> 1..k] :
                         /\ k > 0 => e[1] = 1
                         /\ \A i \in 2..k : e[i] <= e[i - 1] + 1},
               l \in [1..k -> {"p", "h1", "text"}]} :
           k \in 0..MaxLayoutNodes}

Declaration(property, type, value) ==
    [property |-> property, value |-> CssToken(type, value)]

Rule(selector, declarations) ==
    [selector |-> selector, declarations |-> declarations]

\* sheets that hide the h1 elements, the p elements, body, or nothing
HidingSheets ==
    {<<>>} \cup
    {<<Rule(Selector("TypeSelector", tag),
            <<Declaration(kw_display, "Ident", kw_none)>>)>> :
        tag \in {tag_h1, tag_p, tag_body}}

CascadeRules ==
    {Rule(sel, ds) :
        sel \in {Selector("TypeSelector", tag_p),
                 Selector("TypeSelector", tag_h1),
                 Selector("ClassSelector", <<"c">>),
                 Selector("UnknownSelector", <<>>)},
        ds \in {<<Declaration(kw_color, "Ident", kw_red)>>,
                <<Declaration(kw_color, "Ident", kw_blue),
                  Declaration(kw_display, "Ident", kw_inline)>>,
                <<Declaration(kw_background_color, "HashToken",
                              <<"#", "0", "0", "0", "0", "f", "f">>),
                  Declaration(kw_color, "Ident", <<"z">>)>>,
                <<Declaration(kw_display, "Ident", kw_block),
                  Declaration(kw_background_color, "Ident", kw_red),
                  Declaration(kw_color, "Number",
                              [integer |-> 1, fraction |-> <<>>])>>}}

\* sheets that make the p elements or the h1 elements inline boxes
InlineSheets ==
    {<<Rule(Selector("TypeSelector", tag),
            <<Declaration(kw_display, "Ident", kw_inline)>>)>> :
        tag \in {tag_p, tag_h1}}

\* sheets that give the p elements or the h1 elements a display that is
\* no display keyword
UnknownDisplaySheets ==
    {<<Rule(Selector("TypeSelector", tag),
            <<Declaration(kw_display, "Ident", <<"z">>)>>)>> :
        tag \in {tag_p, tag_h1}}

LayoutWritten ==
    {[kind |-> "tree", depth |-> sh.depth, label |-> sh.label,
      rules |-> rs] : sh \in {x \in TreeShapes :
                                 \A i \in 1..(Len(x.depth) - 1) :
                                     x.label[i] = "text" =>
                                         x.depth[i + 1] <= x.depth[i]},
                      rs \in HidingSheets}
    \cup {[kind |-> "cascade", depth |-> <<1, 1, 2>>,
           label |-> <<"p.c", "h1", "text">>, rules |-> rs] :
             rs \in UNION {[1..k -> CascadeRules] : k \in 0..MaxRules}}
    \cup {[kind |-> "inline", depth |-> sh.depth, label |-> sh.label,
           rules |-> rs] :
             sh \in {x \in TreeShapes :
                        /\ Len(x.depth) < MaxLayoutNodes
                        /\ \A i \in 1..(Len(x.depth) - 1) :
                              x.label[i] = "text" =>
                                  x.depth[i + 1] <= x.depth[i]},
             rs \in InlineSheets}
    \cup {[kind |-> "unknown", depth |-> sh.depth, label |-> sh.label,
           rules |-> rs] :
             sh \in {x \in TreeShapes :
                        /\ Len(x.depth) < MaxLayoutNodes
                        /\ \A i \in 1..(Len(x.depth) - 1) :
                              x.label[i] = "text" =>
                                  x.depth[i + 1] <= x.depth[i]},
             rs \in UnknownDisplaySheets}
    \cup {[kind |-> "after_body", depth |-> sh.depth, label |-> sh.label,
           rules |-> rs, after |-> k] :
             sh \in {x \in TreeShapes : Len(x.depth) <= 1},
             rs \in HidingSheets, k \in {"P", "H1"}}
    \cup {[kind |-> "text", depth |-> sh.depth, label |-> sh.label,
           rules |-> <<>>, len |-> n] :
             sh \in {[depth |-> <<1>>, label |-> <<"text">>],
                     [depth |-> <<1, 2>>, label |-> <<"p", "text">>]},
             n \in 1..MaxTextLen}

InitLayout ==
    /\ written \in LayoutWritten
    /\ nodes = CASE written.kind = "after_body" ->
                      DomAfterBody(written.depth, written.label,
                                   written.after)
                 [] written.kind = "text" ->
                      DomText(written.depth, written.label, written.len)
                 [] OTHER -> Dom(written.depth, written.label)
    /\ layout = LayoutView_new(document, [rules |-> written.rules])
    /\ css = Idle
    /\ url = Idle
    /\ t = HtmlTokenizer_new(<<>>)
    /\ tokens = <<>>
    /\ result = [type |-> "NoCall"]
    /\ pc = "idle"
    /\ panic_msg = ""
    /\ mode = "Initial"
    /\ original_insertion_mode = "Initial"
    /\ stack_of_open_elements = <<>>
    /\ token = None

LayoutStep(lv) ==
    /\ layout' = lv
    /\ UNCHANGED <<written, t, tokens, result, pc, panic_msg, parserVars,
                   css, url>>

\* let body_root = get_target_element_node(Some(root), ElementKind::Body);
GetTargetElementNode ==
    /\ layout.pc = "get_target_element_node"
    /\ LayoutStep([layout EXCEPT
           !.pc = "build_layout_tree",
           !.body_root = get_target_element_node(nodes, layout.node, "Body")])

\* root: build_layout_tree(&body_root, &None, cssom); update_layout is
\* what the run does next
BuildLayoutTree ==
    /\ layout.pc = "build_layout_tree"
    /\ LET r == build_layout_tree(nodes, layout.body_root, 0, <<>>,
                                  layout.cssom)
       IN  LayoutStep([layout EXCEPT
               !.pc = IF \E o \in 1..Len(r.objs) : r.objs[o].kind = "panic"
                      THEN "panicked" ELSE "update_layout",
               !.objs = r.objs,
               !.root = r.ret])

\* update_layout: Self::calculate_node_size(&self.root,
\* LayoutSize::new(CONTENT_AREA_WIDTH, 0)); calculate_node_position is
\* what the run does next
CalculateNodeSize ==
    /\ layout.pc = "update_layout"
    /\ LayoutStep([layout EXCEPT
           !.pc = "calculate_node_position",
           !.objs = calculate_node_size(
                        layout.objs, nodes, layout.root,
                        LayoutSize_new(CONTENT_AREA_WIDTH, 0))])

NextLayout ==
    \/ GetTargetElementNode
    \/ BuildLayoutTree
    \/ CalculateNodeSize

SpecLayout == InitLayout /\ [][NextLayout]_vars

(***************************************************************************)
(* Url (url.rs).  A String is a sequence of characters; the operations of  *)
(* str that Url uses are written out.                                      *)
(***************************************************************************)
scheme_http == <<"h", "t", "t", "p", ":", "/", "/">>

\* str::starts_with
starts_with(s, pat) == Len(pat) <= Len(s) /\ SubSeq(s, 1, Len(pat)) = pat

\* str::contains
contains(s, pat) ==
    \E i \in 1..(Len(s) - Len(pat) + 1) :
        SubSeq(s, i, i + Len(pat) - 1) = pat

\* str::trim_start_matches: every leading repetition of pat is removed
RECURSIVE trim_start_matches(_, _)
trim_start_matches(s, pat) ==
    IF starts_with(s, pat)
    THEN trim_start_matches(SubSeq(s, Len(pat) + 1, Len(s)), pat)
    ELSE s

\* str::find for a one-character pattern: <<>> for None, <<index>> for
\* Some(index), the index counted from 0
find(s, c) ==
    IF \E i \in 1..Len(s) : s[i] = c
    THEN <<(CHOOSE i \in 1..Len(s) :
               s[i] = c /\ \A j \in 1..(i - 1) : s[j] # c) - 1>>
    ELSE <<>>

\* str::splitn(2, c).collect(): s cut at the first c, or s alone
splitn2(s, c) ==
    IF find(s, c) = <<>> THEN <<s>>
    ELSE <<SubSeq(s, 1, find(s, c)[1]),
           SubSeq(s, find(s, c)[1] + 2, Len(s))>>

Url_new(u) ==
    [url |-> u, host |-> <<>>, port |-> <<>>, path |-> <<>>,
     searchpart |-> <<>>]

is_http(self) == contains(self.url, scheme_http)

create_url_parts(self) ==
    splitn2(trim_start_matches(self.url, scheme_http), "/")

extract_host(self) ==
    LET url_parts == create_url_parts(self) IN
    IF find(url_parts[1], ":") # <<>>
    THEN SubSeq(url_parts[1], 1, find(url_parts[1], ":")[1])
    ELSE url_parts[1]

extract_port(self) ==
    LET url_parts == create_url_parts(self) IN
    IF find(url_parts[1], ":") # <<>>
    THEN SubSeq(url_parts[1], find(url_parts[1], ":")[1] + 2,
                Len(url_parts[1]))
    ELSE <<"8", "0">>

extract_path(self) ==
    LET url_parts == create_url_parts(self) IN
    IF Len(url_parts) < 2 THEN <<>>
    ELSE splitn2(url_parts[2], "?")[1]

extract_searchpart(self) ==
    LET url_parts == create_url_parts(self) IN
    IF Len(url_parts) < 2 THEN <<>>
    ELSE IF Len(splitn2(url_parts[2], "?")) < 2 THEN <<>>
    ELSE splitn2(url_parts[2], "?")[2]

\* Url::parse: the object after the call and the Result returned
Url_parse(self) ==
    IF ~is_http(self)
    THEN [self |-> self,
          result |-> [type |-> "Err",
                      msg |-> "Only HTTP scheme is supported."]]
    ELSE LET a == [self EXCEPT !.host = extract_host(self)]
             b == [a EXCEPT !.port = extract_port(a)]
             c == [b EXCEPT !.path = extract_path(b)]
             d == [c EXCEPT !.searchpart = extract_searchpart(c)]
         IN  [self |-> d, result |-> [type |-> "Ok", url |-> d]]

(***************************************************************************)
(* Url::new(text).parse() for the texts of up to MaxUrlPieces pieces.      *)
(***************************************************************************)
MaxUrlPieces == 4

UrlPieces == {scheme_http, <<"h">>, <<"x">>, <<"8">>, <<":">>, <<"/">>, <<"?">>}

UrlWritten ==
    {[kind |-> "url", pieces |-> ps] :
        ps \in UNION {[1..k -> UrlPieces] : k \in 0..MaxUrlPieces}}

InitUrl ==
    /\ written \in UrlWritten
    /\ url = [pc |-> "parse", self |-> Url_new(Concat(written.pieces))]
    /\ css = Idle
    /\ layout = Idle
    /\ t = HtmlTokenizer_new(<<>>)
    /\ tokens = <<>>
    /\ result = [type |-> "NoCall"]
    /\ pc = "idle"
    /\ panic_msg = ""
    /\ ParserIdle

UrlParse ==
    /\ url.pc = "parse"
    /\ url' = [pc |-> "returned", self |-> Url_parse(url.self).self,
               result |-> Url_parse(url.self).result]
    /\ UNCHANGED <<written, t, tokens, result, pc, panic_msg, parserVars,
                   rendererVars>>

NextUrl == UrlParse

SpecUrl == InitUrl /\ [][NextUrl]_vars

(***************************************************************************)
(* Properties of the tokenizer.                                            *)
(***************************************************************************)
IsPrefix(a, b) == Len(a) <= Len(b) /\ SubSeq(b, 1, Len(a)) = a
Exhausted == pc = "next" /\ result = None

\* the tokens after which next returns None are exactly the sequence e
Yields(e) ==
    /\ pc # "panicked"
    /\ IsPrefix(tokens, e)
    /\ (result = None => tokens = e)

\* C1: tokenizing never aborts: for every input text, also one that ends
\* in the middle of a tag, no call of next reads beyond the end of the
\* input or fails an assertion.
C1_TokenizingNeverAborts == pc # "panicked"

\* C2: for every (non-empty) input, when next reports exhaustion the
\* tokens returned before end with an Eof token, and it is the only one.
C2_EndsWithOneEof ==
    (Exhausted /\ t.input # <<>>) =>
        /\ tokens # <<>>
        /\ tokens[Len(tokens)] = Eof
        /\ Cardinality({i \in 1..Len(tokens) : tokens[i] = Eof}) = 1

\* C3: once the cursor is at or past the end of the input, a call of next
\* returns None and leaves the tokenizer as it was.
C3_NextPastEndReturnsNone ==
    [][(pc = "next" /\ t.pos >= Len(t.input)) =>
          (t' = t /\ result' = None /\ tokens' = tokens /\ pc' = "next")]_vars

C3_Witness ==
    /\ Exhausted
    /\ t.pos >= Len(t.input)
    /\ tokens # <<>>

\* C4: <name></name>, name being letters in any case and then digits,
\* yields StartTag{lower-cased name, not self-closing, no attributes},
\* EndTag{lower-cased name}, and then exhaustion.
C4_StartAndEndTag ==
    written.kind = "pair" =>
        Yields(<<StartTag(Lower(written.name), FALSE, <<>>),
                 EndTag(Lower(written.name))>>)

C4_Witness ==
    /\ written.kind = "pair"
    /\ written.name = <<"D", "b", "1">>
    /\ Exhausted
    /\ tokens = <<StartTag(<<"d", "b", "1">>, FALSE, <<>>),
                  EndTag(<<"d", "b", "1">>)>>

\* the attributes as the StartTag token is to carry them
ExpectedAttributes(as) ==
    [i \in 1..Len(as) |-> [name |-> Lower(as[i].name), value |-> as[i].value]]

\* C5: a start tag whose attributes are separated by single spaces, each
\* value double-quoted, single-quoted or unquoted, yields a StartTag with
\* one attribute per written attribute, in order, the name lower-cased and
\* the value as written without its quotes.
C5_Attributes ==
    (written.kind = "tag" /\ ~written.space /\ ~written.slash) =>
        Yields(<<StartTag(Lower(written.name), FALSE,
                          ExpectedAttributes(written.attrs))>>)

C5_Witness ==
    /\ written.kind = "tag" /\ ~written.space /\ ~written.slash
    /\ Len(written.attrs) = 3
    /\ {written.attrs[i].form : i \in 1..3} = {"double", "single", "unquoted"}
    /\ \E i \in 1..3 : written.attrs[i].name = <<"I", "d">>
    /\ Exhausted
    /\ Len(tokens) = 1
    /\ Len(tokens[1].attributes) = 3

\* the "/" directly follows an unquoted attribute value
SlashInUnquotedValue(w) ==
    /\ w.slash /\ ~w.space
    /\ w.attrs # <<>>
    /\ w.attrs[Len(w.attrs)].form = "unquoted"

C7_ScriptText ==
    written.kind = "script" =>
        Yields(<<StartTag(tag_script, FALSE, <<>>)>>
               \o [i \in 1..Len(written.text) |-> Char(written.text[i])]
               \o <<EndTag(tag_script)>>)

C7_Witness ==
    /\ written.kind = "script"
    /\ written.text = <<"j", " ", ";">>
    /\ Exhausted
    /\ Len(tokens) = 5
    /\ tokens[3] = Char(" ")

(***************************************************************************)
(* Properties of the tree constructor.                                     *)
(***************************************************************************)
\* C8: once the tree constructor has processed a script or style start tag
\* (it is in Text mode), the tokenizer handles raw text: what follows, up
\* to the end tag, comes as Char tokens, a "<" included, and no StartTag
\* token is made from the element's content.
C8_RawTextInScript ==
    (pc = "loop" /\ mode = "Text") => token.type # "StartTag"

\* the token at hand is an end tag whose element kind is not on the stack
\* of open elements: </p>, </h1>, </h2> in InBody, </style>, </script> in
\* Text
UnmatchedEndTag ==
    /\ pc = "loop"
    /\ token.type = "EndTag"
    /\ \/ mode = "InBody" /\ token.tag \in {tag_p, tag_h1, tag_h2}
       \/ mode = "Text" /\ token.tag \in {tag_style, tag_script}
    /\ ~contain_in_stack(State, ElementKind_from_str(token.tag))

\* C9: an end tag whose element kind is not on the stack of open elements
\* is ignored: the turn of the loop that handles it ends without an abort
\* and leaves the stack and the tree as they were.
C9_UnmatchedEndTagIgnored ==
    [][UnmatchedEndTag =>
          /\ pc' # "panicked"
          /\ stack_of_open_elements' = stack_of_open_elements
          /\ nodes' = nodes]_vars

\* C10: in InBody a start tag "a" inserts a new element as the last child
\* of the current open element and pushes it on the stack of open
\* elements, as "p", "h1" and "h2" do.
C10_StartTagAInserted ==
    [][(InMode("InBody") /\ IsStartTag(token, tag_a)) =>
          /\ pc' # "panicked"
          /\ Len(nodes') = Len(nodes) + 1
          /\ stack_of_open_elements' =
                 Append(stack_of_open_elements, Len(nodes'))
          /\ nodes'[Len(nodes')].kind = "Element"
          /\ nodes'[Len(nodes')].parent = current_node(State)
          /\ nodes'[current_node(State)].last_child = Len(nodes')]_vars

\* an element node with the given links
Linked(kind, parent, first, last, prev, nxt) ==
    [Node_new("Element", kind, <<>>, <<>>) EXCEPT
        !.parent = parent, !.first_child = first, !.last_child = last,
        !.previous_sibling = prev, !.next_sibling = nxt]

\* Document > html > [head, body > element of the given kind]
SynthesizedTree(kind) ==
    <<[Window_new[document] EXCEPT !.first_child = 2, !.last_child = 2],
      Linked("Html", 1, 3, 4, 0, 0),
      Linked("Head", 2, 0, 0, 0, 4),
      Linked("Body", 2, 5, 5, 3, 0),
      Linked(kind, 4, 0, 0, 0, 0)>>

\* the token at hand is the first tag token of the input, and it is a p,
\* h1 or h2 start tag
FirstTagIsContent ==
    /\ pc = "loop"
    /\ token.type = "StartTag"
    /\ token.tag \in {tag_p, tag_h1, tag_h2}
    /\ tokens # <<>>
    /\ tokens[Len(tokens)] = token
    /\ \A i \in 1..(Len(tokens) - 1) : tokens[i].type = "Char"

\* C11: when the first tag token is a p, h1 or h2 start tag, the turns of
\* the loop that examine it insert html under the document, head under
\* html, pop head, insert body under html and insert the content element
\* under body, in this order; the tree is then Document > html > [head,
\* body > element] and the stack is [html, body, element].
C11_MissingElementsSynthesized ==
    [][FirstTagIsContent =>
        LET tree == SynthesizedTree(ElementKind_from_str(token.tag)) IN
        /\ pc' # "panicked"
        /\ CASE mode = "Initial" ->
                  /\ nodes = Window_new /\ stack_of_open_elements = <<>>
                  /\ mode' = "BeforeHtml" /\ token' = token
                  /\ nodes' = nodes /\ stack_of_open_elements' = <<>>
             [] mode = "BeforeHtml" ->
                  /\ mode' = "BeforeHead" /\ token' = token
                  /\ Len(nodes') = 2
                  /\ nodes'[2] = [tree[2] EXCEPT !.first_child = 0,
                                                 !.last_child = 0]
                  /\ nodes'[1] = tree[1]
                  /\ stack_of_open_elements' = <<2>>
             [] mode = "BeforeHead" ->
                  /\ mode' = "InHead" /\ token' = token
                  /\ Len(nodes') = 3
                  /\ nodes'[3] = [tree[3] EXCEPT !.next_sibling = 0]
                  /\ nodes'[2] = [tree[2] EXCEPT !.last_child = 3]
                  /\ stack_of_open_elements' = <<2, 3>>
             [] mode = "InHead" ->
                  /\ mode' = "AfterHead" /\ token' = token
                  /\ nodes' = nodes
                  /\ stack_of_open_elements' = <<2>>
             [] mode = "AfterHead" ->
                  /\ mode' = "InBody" /\ token' = token
                  /\ Len(nodes') = 4
                  /\ nodes'[4] = [tree[4] EXCEPT !.first_child = 0,
                                                 !.last_child = 0]
                  /\ SubSeq(nodes', 1, 3) = SubSeq(tree, 1, 3)
                  /\ stack_of_open_elements' = <<2, 4>>
             [] mode = "InBody" ->
                  /\ nodes' = tree
                  /\ stack_of_open_elements' = <<2, 4, 5>>
             [] OTHER -> FALSE]_vars

C11_Witness ==
    /\ tokens # <<>>
    /\ tokens[1] = StartTag(tag_h2, FALSE, <<>>)
    /\ nodes = SynthesizedTree("H2")
    /\ stack_of_open_elements = <<2, 4, 5>>
    /\ mode = "InBody"


\* the turn of the loop of construct_tree taken in state ps
Turn(ps) ==
    CASE ps.mode = "Initial" -> Initial(ps)
      [] ps.mode = "BeforeHtml" -> BeforeHtml(ps)
      [] ps.mode = "BeforeHead" -> BeforeHead(ps)
      [] ps.mode = "InHead" -> InHead(ps)
      [] ps.mode = "AfterHead" -> AfterHead(ps)
      [] ps.mode = "InBody" -> InBody(ps)
      [] ps.mode = "Text" -> Text(ps)
      [] ps.mode = "AfterBody" -> AfterBody(ps)
      [] ps.mode = "AfterAfterBody" -> AfterAfterBody(ps)

\* what is left to read: the characters after the cursor and the token
Remaining == Len(t.input) - t.pos + (IF token = None THEN 0 ELSE 1)

\* how many turns of the loop can still keep the token at hand
TurnsLeft ==
    CASE mode = "Text" -> 8
      [] mode = "Initial" -> 7
      [] mode = "BeforeHtml" -> 6
      [] mode = "BeforeHead" -> 5
      [] mode = "InHead" -> 4
      [] mode = "AfterHead" -> 3
      [] mode = "AfterAfterBody" -> 3
      [] mode = "InBody" -> IF IsEndTag(token, tag_html) THEN 2 ELSE 0
      [] mode = "AfterBody" -> 1

\* C12: construct_tree terminates: no turn of the loop leaves the program
\* as it was, every turn either reads on in the input or keeps the token
\* and moves to a mode from which fewer such turns are possible (so no
\* chain of mode changes examines the same token for ever), and when next
\* has returned None the Window is returned in the same turn, the stack of
\* open elements and the tree being left as they are.
C12_ConstructTreeTerminates ==
    /\ []((pc = "loop" /\ token # None) => Turn(State) # State)
    /\ [][(pc = "loop" /\ pc' = "loop") =>
             \/ Remaining' < Remaining
             \/ Remaining' = Remaining /\ TurnsLeft' < TurnsLeft]_vars
    /\ [][(pc = "loop" /\ token = None) =>
             /\ pc' = "returned"
             /\ nodes' = nodes
             /\ stack_of_open_elements' = stack_of_open_elements]_vars

\* the window is returned with elements still open
C12_Witness ==
    /\ pc = "returned"
    /\ token = None
    /\ Len(stack_of_open_elements) >= 3
    /\ Len(tokens) = 3


\* the nodes visited from node m by following next_sibling
RECURSIVE SiblingChain(_, _)
SiblingChain(ns, m) ==
    IF m = 0 THEN <<>> ELSE <<m>> \o SiblingChain(ns, ns[m].next_sibling)

\* the first-child/next-sibling chain of node n
ChildChain(ns, n) == SiblingChain(ns, ns[n].first_child)

\* C13: for every node n the first-child/next-sibling chain of n visits
\* exactly the nodes whose parent is n, each once and in insertion order
\* (nodes are numbered as they are made), also after a Text node was
\* inserted under a node that had two or more children.
C13_ChainVisitsChildrenInOrder ==
    \A n \in 1..Len(nodes) :
        LET c == ChildChain(nodes, n) IN
        /\ {c[i] : i \in 1..Len(c)} =
               {m \in 1..Len(nodes) : nodes[m].parent = n}
        /\ \A i \in 1..(Len(c) - 1) : c[i] < c[i + 1]

\* C14: each node's last_child is the last node of its first-child/
\* next-sibling chain, and is empty exactly when first_child is empty.
C14_LastChildEndsChain ==
    \A n \in 1..Len(nodes) :
        LET c == ChildChain(nodes, n) IN
        /\ (nodes[n].last_child = 0) <=> (nodes[n].first_child = 0)
        /\ c # <<>> => nodes[n].last_child = c[Len(c)]

\* a Text node was inserted under a node that had two children
C14_Witness ==
    \E n \in 1..Len(nodes) :
        /\ Cardinality({m \in 1..Len(nodes) : nodes[m].parent = n}) = 3
        /\ nodes[n].last_child = Len(nodes)
        /\ nodes[Len(nodes)].kind = "Text"
        /\ nodes[Len(nodes)].parent = n

\* C15: as long as the input has yielded no tag token, only character
\* tokens, the Document has no children and the stack of open elements is
\* empty, and the run is not aborted; so the Window returned for the empty
\* text, or for character data without "<", has a childless Document.
C15_NoTagNoChildren ==
    (\A i \in 1..Len(tokens) : tokens[i].type = "Char") =>
        /\ pc # "panicked"
        /\ nodes = Window_new
        /\ stack_of_open_elements = <<>>

C15_Witness ==
    /\ pc = "returned"
    /\ tokens = <<Char("x"), Char(" "), Char("x")>>
    /\ nodes = Window_new
    /\ stack_of_open_elements = <<>>


(***************************************************************************)
(* Properties of the style rule parser.                                    *)
(***************************************************************************)
\* C16: the style text T { P: V; }, T, P and V identifiers, is parsed into
\* a StyleSheet of exactly one rule, with selector TypeSelector(T) and the
\* one declaration {property P, value Ident(V)}.
C16_OneRuleOneDeclaration ==
    written.kind = "rule" =>
        /\ css.pc \in {"parse_stylesheet", "consume_list_of_rules",
                       "set_rules", "returned"}
        /\ css.pc = "returned" =>
              css.sheet.rules =
                  <<[selector |-> Selector("TypeSelector", written.selector),
                     declarations |->
                         <<[property |-> written.property,
                            value |-> CssToken("Ident", written.value)]>>]>>

C16_Witness ==
    /\ written.kind = "rule"
    /\ written.selector = <<"p">>
    /\ written.property = <<"-", "r">>
    /\ written.value = <<"_", "1">>
    /\ css.pc = "returned"
    /\ Len(css.sheet.rules) = 1
    /\ css.sheet.rules[1].declarations[1].property = <<"-", "r">>

\* C31: the selector of a parsed rule is IdSelector(name) for a prelude
\* #name, ClassSelector(name) for .name, TypeSelector(name) for a plain
\* identifier and TypeSelector(base) for base:pseudo, the tokens of the
\* pseudo-class up to the "{" being skipped; the declaration block that
\* follows is parsed into the rule.
C31_SelectorOfPrelude ==
    written.kind = "prelude" =>
        /\ css.pc \in {"parse_stylesheet", "consume_list_of_rules",
                       "set_rules", "returned"}
        /\ css.pc = "returned" =>
              css.sheet.rules =
                  <<[selector |->
                        Selector(CASE written.prelude.form = "id" ->
                                        "IdSelector"
                                   [] written.prelude.form = "class" ->
                                        "ClassSelector"
                                   [] OTHER -> "TypeSelector",
                                 written.prelude.name),
                     declarations |->
                         <<[property |-> written.property,
                            value |-> CssToken("Ident", written.value)]>>]>>

C31_Witness ==
    /\ written.kind = "prelude"
    /\ written.prelude.form = "id"
    /\ written.prelude.name = <<"p", "1">>
    /\ css.pc = "returned"
    /\ Len(css.sheet.rules) = 1
    /\ css.sheet.rules[1].selector = Selector("IdSelector", <<"p", "1">>)
    /\ Len(css.sheet.rules[1].declarations) = 1

\* C32: a declaration that lacks its colon is discarded and the block
\* structure stays: the rule ends at its own close-brace, its declarations
\* are the well-formed ones written between its braces, and a rule that
\* follows is parsed as a separate rule with its own declarations.
C32_MissingColonKeepsBlocks ==
    (written.kind = "nocolon" /\ css.pc = "returned") =>
        css.sheet.rules =
            <<[selector |-> Selector("TypeSelector", <<"p">>),
               declarations |->
                   (IF written.before
                    THEN <<[property |-> <<"a">>,
                            value |-> CssToken("Ident", <<"x">>)]>>
                    ELSE <<>>)
                   \o (IF written.after
                       THEN <<[property |-> <<"a">>,
                               value |-> CssToken("Ident", <<"p">>)]>>
                       ELSE <<>>)]>>
            \o (IF written.second
                THEN <<[selector |-> Selector("TypeSelector", <<"h", "1">>),
                        declarations |->
                            <<[property |-> <<"a">>,
                               value |-> CssToken("Ident", <<"b">>)]>>]>>
                ELSE <<>>)

\* the index of the first character of the style text at or after index
\* i that is not a space or newline (Len + 1 if there is none)
RECURSIVE AfterSpaces(_, _)
AfterSpaces(text, i) ==
    IF i <= Len(text) /\ text[i] \in {" ", "\n"}
    THEN AfterSpaces(text, i + 1) ELSE i

\* the index of the last character of the run of digits and points that
\* starts at index i
RECURSIVE EndOfNumber(_, _)
EndOfNumber(text, i) ==
    IF i < Len(text) /\ text[i + 1] \in Digits \cup {"."}
    THEN EndOfNumber(text, i + 1) ELSE i

\* C33: after a Number token the next token starts at the first character
\* that follows the number's digits: of the characters the call of next
\* has passed, those behind the number are spaces or newlines, so none that
\* is not is skipped.
C33_NumberEndsAtItsDigits ==
    [][(css.pc = "next" /\ Len(tokens') = Len(tokens) + 1
                       /\ tokens'[Len(tokens')].type = "Number") =>
          LET text == css.t.input
              last == EndOfNumber(text, AfterSpaces(text, css.t.pos + 1))
          IN  \A i \in (last + 1)..Len(text) :
                 i <= css'.t.pos => text[i] \in {" ", "\n"}]_vars

\* C34: the style tokenizer never reads beyond the end of its input: a
\* text that ends in an identifier or hash, in a string without its closing
\* quote or in an "@" with fewer than three characters after it gives its
\* token and then None, and the run does not abort.
C34_NeverReadsBeyondTheEnd ==
    ~(css.pc = "panicked" /\ css.msg = "index out of bounds")

\* C17: parse_stylesheet does not abort on a token that cannot start a
\* selector, such as the delimiter "," or a lone "@": the selector is
\* UnknownSelector or the rule is dropped, and the parse goes on.
C17_NoAbortOnUnexpectedToken ==
    ~(css.pc = "panicked" /\ css.msg = "Parse error: unexpected token")

\* C18: parse_stylesheet terminates: when the tokens run out while a rule
\* is scanned, the scan ends and the rules collected so far are returned.
C18_ParseStylesheetTerminates == css.pc # "looping"

(***************************************************************************)
(* Properties of the layout tree builder.                                  *)
(***************************************************************************)
\* the display the rules of the sheet give node n is none
Suppressed(n) ==
    cascade_rules(ComputedStyle_new, nodes[n], layout.cssom.rules).display
        = <<"DisplayNone">>

\* node n of the body subtree, or a node between it and body, is suppressed
RECURSIVE Hidden(_)
Hidden(n) == Suppressed(n) \/ (n # body /\ Hidden(nodes[n].parent))

\* the nodes of the objects of a chain of LayoutObjects
NodesOf(chain) == [i \in 1..Len(chain) |-> layout.objs[chain[i]].node]

\* C19: in the layout tree built from a node tree, a node whose display is
\* none has no LayoutObject and neither has any of its descendants; every
\* other node of the body subtree has exactly one LayoutObject (body here
\* has no later sibling, which is the matter of C21); and the
\* children of a LayoutObject are the objects of the children of its node
\* whose display is not none, linked in document order, so that a child
\* after suppressed siblings follows the preceding child that is not
\* suppressed or is the first child.
C19_DisplayNoneLeavesSiblings ==
    (layout.pc = "update_layout" /\ written.kind # "after_body") =>
        LET objs == layout.objs
            Shown(n) == ~Suppressed(n)
        IN  /\ \A n \in 1..Len(nodes) :
                   Cardinality({o \in 1..Len(objs) : objs[o].node = n}) =
                       IF n >= body /\ ~Hidden(n) THEN 1 ELSE 0
            /\ \A o \in 1..Len(objs) :
                   NodesOf(ChildChain(objs, o)) =
                       SelectSeq(ChildChain(nodes, objs[o].node), Shown)
            /\ IF Suppressed(body) THEN layout.root = 0
               ELSE layout.root # 0 /\ objs[layout.root].node = body

\* body > [p, h1 > text, p], h1 hidden: body's object has the two p
C19_Witness ==
    /\ layout.pc = "update_layout"
    /\ written.kind = "tree"
    /\ written.label = <<"p", "h1", "text", "p">>
    /\ written.depth = <<1, 1, 2, 1>>
    /\ Suppressed(6) /\ ~Suppressed(body)
    /\ Len(layout.objs) = 3
    /\ NodesOf(ChildChain(layout.objs, layout.root)) = <<5, 8>>

\* the declarations of the rules that match node n, in StyleSheet order
Matching(n) ==
    LET rules == layout.cssom.rules IN
    Concat([i \in 1..Len(rules) |->
               IF is_node_selected(n, rules[i].selector)
               THEN rules[i].declarations ELSE <<>>])

\* the declarations of ds that set property f
Setting(ds, f) ==
    {i \in 1..Len(ds) :
        \/ /\ f = "display"
           /\ ds[i].property = kw_display
           /\ ds[i].value.type = "Ident"
        \/ /\ f = "color"
           /\ ds[i].property = kw_color
           /\ ds[i].value.type \in {"Ident", "HashToken"}
        \/ /\ f = "background_color"
           /\ ds[i].property = kw_background_color
           /\ ds[i].value.type \in {"Ident", "HashToken"}}

\* the value a declaration gives property f
Resolved(f, v) ==
    CASE f = "display" -> DisplayType_from_str(v.value)
      [] f = "color" -> Color_from(v, kw_black)
      [] f = "background_color" -> Color_from(v, kw_white)

\* C20: when rules of the StyleSheet match the node of a LayoutObject and
\* set background-color, color or display, the style has the value of the
\* last such declaration in StyleSheet order; rules that do not match,
\* every UnknownSelector rule among them, do not change it: a property no
\* matching rule sets has the defaulted value.
C20_LastMatchingDeclarationWins ==
    layout.pc = "update_layout" =>
        \A o \in 1..Len(layout.objs) :
            LET obj == layout.objs[o]
                n == nodes[obj.node]
                ds == Matching(n)
                parent_style == IF obj.parent = 0 THEN <<>>
                                ELSE <<layout.objs[obj.parent].style>>
            IN  \A f \in {"background_color", "color", "display"} :
                    LET S == Setting(ds, f) IN
                    IF S = {}
                    THEN obj.style[f] =
                             defaulting(ComputedStyle_new, n, parent_style)[f]
                    ELSE obj.style[f] =
                             <<Resolved(f,
                                   ds[CHOOSE i \in S : \A j \in S : j <= i]
                                       .value)>>

\* p.c matched by p {color: red} and then by .c {color: blue; ...}
C20_Witness ==
    /\ layout.pc = "update_layout"
    /\ written.kind = "cascade"
    /\ Len(written.rules) = 2
    /\ written.rules[1].selector = Selector("TypeSelector", tag_p)
    /\ written.rules[2].selector = Selector("ClassSelector", <<"c">>)
    /\ Len(Matching(nodes[5])) = 3
    /\ Matching(nodes[5])[1].value.value = kw_red
    /\ \E o \in 1..Len(layout.objs) :
           /\ layout.objs[o].node = 5
           /\ layout.objs[o].style.color = <<kw_blue>>
           /\ layout.objs[o].style.display = <<"Inline">>

\* node n is body or lies below it
RECURSIVE UnderBody(_)
UnderBody(n) ==
    n = body \/ (nodes[n].parent # 0 /\ UnderBody(nodes[n].parent))

\* C21: the layout tree built by LayoutView::new holds LayoutObjects only
\* for body and the nodes below it, also when an element after </body> was
\* made the next sibling of body.
C21_OnlyBodySubtreeLaidOut ==
    layout.pc = "update_layout" =>
        \A o \in 1..Len(layout.objs) : UnderBody(layout.objs[o].node)

(***************************************************************************)
(* Properties of the size pass.                                            *)
(***************************************************************************)
Sized == layout.pc = "calculate_node_position"

\* the Text boxes with font size Medium whose text is wider than the
\* content area
WideMediumTexts ==
    {o \in 1..Len(layout.objs) :
        /\ layout.objs[o].kind = "Text"
        /\ layout.objs[o].style.font_size = <<"Medium">>
        /\ CHAR_WIDTH * Len(nodes[layout.objs[o].node].text)
               > CONTENT_AREA_WIDTH}

TextWidth(o) == CHAR_WIDTH * Len(nodes[layout.objs[o].node].text)

\* C22: a Text box with font size Medium whose text width w = CHAR_WIDTH x
\* length exceeds CONTENT_AREA_WIDTH has width CONTENT_AREA_WIDTH and
\* height k x CHAR_HEIGHT_WITH_PADDING, k being the least number of
\* content-area widths that hold w: 2 when w is between one and two
\* widths, and w / CONTENT_AREA_WIDTH (not one more) when w is a multiple.
C22_TextHeightIsCeiling ==
    Sized =>
        \A o \in WideMediumTexts :
            LET w == TextWidth(o)
                k == CHOOSE j \in 1..w :
                        /\ j * CONTENT_AREA_WIDTH >= w
                        /\ (j - 1) * CONTENT_AREA_WIDTH < w
                size == layout.objs[o].size
            IN  /\ size.width = CONTENT_AREA_WIDTH
                /\ size.height = k * CHAR_HEIGHT_WITH_PADDING
                /\ w <= 2 * CONTENT_AREA_WIDTH =>
                       size.height = 2 * CHAR_HEIGHT_WITH_PADDING
                /\ w % CONTENT_AREA_WIDTH = 0 =>
                       size.height = (w \div CONTENT_AREA_WIDTH)
                                         * CHAR_HEIGHT_WITH_PADDING

\* a text as wide as three content areas, or wider, that is not a multiple
C22_Witness ==
    /\ Sized
    /\ \E o \in WideMediumTexts :
           /\ TextWidth(o) > 3 * CONTENT_AREA_WIDTH
           /\ TextWidth(o) % CONTENT_AREA_WIDTH # 0
           /\ layout.objs[o].size.height > 3 * CHAR_HEIGHT_WITH_PADDING

\* C35: in the built layout tree every LayoutObject but the root has as
\* parent the LayoutObject whose chain of children holds it: a first child
\* has the object it is the first child of, and an object reached as the
\* next sibling of another has the parent of that other, not an empty one.
C35_ParentOwnsChain ==
    layout.pc = "update_layout" =>
        \A o \in 1..Len(layout.objs) :
           /\ \A q \in 1..Len(layout.objs) :
                 layout.objs[q].first_child = o => layout.objs[o].parent = q
           /\ \A q \in 1..Len(layout.objs) :
                 layout.objs[q].next_sibling = o =>
                    layout.objs[o].parent = layout.objs[q].parent

\* the sum of the heights of the boxes of a chain that are Block or come
\* right after a Block, the first box of the chain counting always
RECURSIVE CountedHeight(_, _)
CountedHeight(chain, i) ==
    IF i > Len(chain) THEN 0
    ELSE (IF i = 1 \/ layout.objs[chain[i]].kind = "Block"
                   \/ layout.objs[chain[i - 1]].kind = "Block"
          THEN layout.objs[chain[i]].size.height ELSE 0)
         + CountedHeight(chain, i + 1)

\* C36: after the size pass the height of a Block box is the sum of the
\* final heights of its children that are Block or come right after a
\* Block child, the first child counting always; of a run of children that
\* are not Block only the first adds its height.
C36_BlockHeightCountsBlockAdjacent ==
    Sized =>
        \A o \in 1..Len(layout.objs) :
           layout.objs[o].kind = "Block" =>
              layout.objs[o].size.height =
                  CountedHeight(ChildChain(layout.objs, o), 1)

C36_Witness ==
    /\ Sized
    /\ \E o \in 1..Len(layout.objs) :
          LET c == ChildChain(layout.objs, o) IN
          /\ layout.objs[o].kind = "Block"
          /\ Len(c) = 3
          /\ layout.objs[c[1]].kind = "Block"
          /\ layout.objs[c[2]].kind = "Text"
          /\ layout.objs[c[3]].kind = "Text"
          /\ layout.objs[c[1]].size.height = CHAR_HEIGHT_WITH_PADDING
          /\ layout.objs[o].size.height = 2 * CHAR_HEIGHT_WITH_PADDING

\* the box whose chain of children holds box o; 0 for the root and the
\* boxes after it
Container(o) ==
    IF \E q \in 1..Len(layout.objs) :
          \E i \in 1..Len(ChildChain(layout.objs, q)) :
             ChildChain(layout.objs, q)[i] = o
    THEN CHOOSE q \in 1..Len(layout.objs) :
            \E i \in 1..Len(ChildChain(layout.objs, q)) :
               ChildChain(layout.objs, q)[i] = o
    ELSE 0

\* C37: after the size pass the width of a Block box is the final width of
\* the box whose chain of children holds it, be that box Block or Inline,
\* and CONTENT_AREA_WIDTH for the root and the boxes after it.
C37_BlockWidthIsContainerWidth ==
    Sized =>
        \A o \in 1..Len(layout.objs) :
           layout.objs[o].kind = "Block" =>
              layout.objs[o].size.width =
                  IF Container(o) = 0 THEN CONTENT_AREA_WIDTH
                  ELSE layout.objs[Container(o)].size.width

\* a rule of the sheet that matches node n declares display: none
DeclaredNone(n) ==
    LET ds == Matching(nodes[n]) IN
    \E i \in 1..Len(ds) :
        /\ ds[i].property = kw_display
        /\ ds[i].value = CssToken("Ident", kw_none)

\* display: none is declared for node n or for a node between it and body
RECURSIVE NoneAbove(_)
NoneAbove(n) == DeclaredNone(n) \/ (n # body /\ NoneAbove(nodes[n].parent))

\* C39: only a declaration display: none takes a node out of the layout
\* tree: a node of the body subtree for which no matching rule, of its
\* own or of a node above it, declares display: none has a LayoutObject,
\* also when a rule gives it a display that is no display keyword.
C39_OnlyDisplayNoneRemoves ==
    (layout.pc = "update_layout" /\ written.kind # "after_body") =>
        \A n \in body..Len(nodes) :
            ~NoneAbove(n) =>
                \E o \in 1..Len(layout.objs) : layout.objs[o].node = n

(***************************************************************************)
(* Properties of Url.                                                      *)
(***************************************************************************)
\* C23: Url::parse accepts a text only when it begins with http://; a
\* text that holds http:// after something else gets an error, and no
\* host, port, path or searchpart is taken from it.
C23_OnlyHttpAtTheStart ==
    url.pc = "returned" =>
        IF starts_with(Concat(written.pieces), scheme_http)
        THEN url.result.type = "Ok"
        ELSE /\ url.result.type = "Err"
             /\ url.self = Url_new(Concat(written.pieces))

(***************************************************************************)
(* Properties of the stack of open elements and of insertion.              *)
(***************************************************************************)
OnStack(kind) == contain_in_stack(State, kind)

\* C24: in InBody an end tag "html" pops body and then html whenever both
\* are open, also when further elements are open above body; the token is
\* ignored, the stack unchanged, only when body or html is not open.
C24_EndTagHtmlPopsBodyAndHtml ==
    [][(InMode("InBody") /\ IsEndTag(token, tag_html)) =>
          IF OnStack("Body") /\ OnStack("Html")
          THEN ~OnStack("Body")' /\ ~OnStack("Html")'
          ELSE stack_of_open_elements' = stack_of_open_elements]_vars

\* the characters of the Char tokens that end the tokens returned so far
RECURSIVE CharRun(_)
CharRun(toks) ==
    IF toks = <<>> \/ toks[Len(toks)].type # "Char" THEN <<>>
    ELSE Append(CharRun(SubSeq(toks, 1, Len(toks) - 1)), toks[Len(toks)].c)

\* s without its leading spaces and newlines
RECURSIVE Strip(_)
Strip(s) ==
    IF s # <<>> /\ (s[1] = " " \/ s[1] = "\n") THEN Strip(Tail(s)) ELSE s

IsSuffix(a, b) ==
    Len(a) <= Len(b) /\ SubSeq(b, Len(b) - Len(a) + 1, Len(b)) = a

\* the token that came before the character tokens that precede token
BeforeRun ==
    LET before == SubSeq(tokens, 1, Len(tokens) - 1)
        k == Len(before) - Len(CharRun(before))
    IN  IF k = 0 THEN None ELSE tokens[k]

\* Text mode holds the end tag that matches the start tag before the
\* character tokens
AtMatchingEndTag ==
    /\ InMode("Text")
    /\ token.type = "EndTag"
    /\ token.tag \in {tag_style, tag_script}
    /\ IsStartTag(BeforeRun, token.tag)

\* C25: a style or script start tag seen in InHead pushes its element and
\* enters Text mode with InHead as the original mode; after the character
\* tokens that follow and the matching end tag the mode is InHead again,
\* the stack is what it was before the start tag, and the characters, less
\* leading spaces and newlines, are the single Text child of the element.
\* (insert_element pushes the element on the stack as it was, so the stack
\* before the start tag is what lies under the element.)
C25_RawTextElementRestoresModeAndStack ==
    [][AtMatchingEndTag =>
          LET text == Strip(CharRun(SubSeq(tokens, 1, Len(tokens) - 1)))
              e == IF text = <<>> THEN Len(nodes) ELSE Len(nodes) - 1
              under == SubSeq(stack_of_open_elements, 1,
                              Len(stack_of_open_elements)
                                  - (IF text = <<>> THEN 1 ELSE 2))
          IN  /\ original_insertion_mode = "InHead"
              /\ nodes[e].kind = "Element"
              /\ nodes[e].element_kind = ElementKind_from_str(token.tag)
              /\ stack_of_open_elements =
                    under \o (IF text = <<>> THEN <<e>> ELSE <<e, e + 1>>)
              /\ IF text = <<>>
                 THEN nodes[e].first_child = 0
                 ELSE /\ nodes[e].first_child = e + 1
                      /\ nodes[e].last_child = e + 1
                      /\ nodes[e + 1].kind = "Text"
                      /\ nodes[e + 1].text = text
                      /\ nodes[e + 1].parent = e
                      /\ nodes[e + 1].next_sibling = 0
              /\ pc' # "panicked"
              /\ mode' = "InHead"
              /\ stack_of_open_elements' = under
              /\ nodes' = nodes]_vars

C25_Witness ==
    /\ pc = "loop"
    /\ mode = "InHead"
    /\ Len(tokens) = 5
    /\ IsStartTag(tokens[1], tag_script)
    /\ tokens[2] = Char(" ")
    /\ tokens[3] = Char("x")
    /\ tokens[4] = Char(" ")
    /\ IsEndTag(tokens[5], tag_script)
    /\ nodes[Len(nodes)].kind = "Text"
    /\ nodes[Len(nodes)].text = <<"x", " ">>
    /\ nodes[Len(nodes) - 1].element_kind = "Script"
    /\ OnStack("Head")
    /\ ~OnStack("Script")

\* a turn of the loop that gives a character token to insert_char
CharTurn ==
    (InMode("InBody") \/ InMode("Text")) /\ token.type = "Char"

TextNodes(ns) == {n \in 1..Len(ns) : ns[n].kind = "Text"}

\* what C26 says of a turn that gives a character to insert_char
InsertsCharacter ==
    LET cur == current_node(State)
        extending == nodes[cur].kind = "Text"
        run == CharRun(tokens)
        top == stack_of_open_elements'[Len(stack_of_open_elements')]
    IN  IF extending
        THEN /\ nodes' = [nodes EXCEPT ![cur].text = Append(@, token.c)]
             /\ stack_of_open_elements' = stack_of_open_elements
             /\ IsSuffix(Strip(run), nodes'[cur].text)
        ELSE IF IsSpace(token)
        THEN /\ nodes' = nodes
             /\ stack_of_open_elements' = stack_of_open_elements
        ELSE /\ TextNodes(nodes') = TextNodes(nodes) \cup {Len(nodes')}
             /\ Len(nodes') = Len(nodes) + 1
             /\ stack_of_open_elements' # <<>>
             /\ top = Len(nodes')
             /\ nodes'[top].text = <<token.c>>
             /\ nodes'[top].parent = cur
             /\ nodes'[cur].last_child = top

C27_StackHoldsElementsOnly ==
    /\ \A i \in 1..Len(stack_of_open_elements) :
          nodes[stack_of_open_elements[i]].kind = "Element"
    /\ \A n \in 1..Len(nodes) :
          nodes[n].kind = "Text" =>
             nodes[n].first_child = 0 /\ nodes[n].last_child = 0

\* C28: a node that has a preceding sibling has, as previous_sibling, the
\* node whose next_sibling it is, also under a parent of three or more
\* children; a first child has no previous sibling.
C28_PreviousSiblingIsThePredecessor ==
    \A n \in 1..Len(nodes) :
       /\ \A m \in 1..Len(nodes) :
             nodes[m].next_sibling = n => nodes[n].previous_sibling = m
       /\ (\E q \in 1..Len(nodes) : nodes[q].first_child = n) =>
             nodes[n].previous_sibling = 0

\* C29: the Document node has at most one child, and it is the html
\* element: no other element is ever put directly under Document, also
\* when start tags come after the end tag "html" has emptied the stack.
C29_DocumentHasOnlyHtml ==
    \A n \in 1..Len(nodes) :
       nodes[n].parent = document =>
          /\ element_kind(nodes[n]) = "Html"
          /\ nodes[document].first_child = n
          /\ nodes[document].last_child = n
          /\ nodes[n].next_sibling = 0

\* a turn of the loop in InHead that closes head: the end tag "head", the
\* start tag "body", or a start tag ElementKind::from_str knows that is
\* not style or script
HeadClosingTurn ==
    /\ InMode("InHead")
    /\ \/ IsEndTag(token, tag_head)
       \/ /\ token.type = "StartTag"
          /\ ElementKind_from_str(token.tag) # "Err"
          /\ token.tag \notin {tag_style, tag_script}

\* C40: whenever InHead closes head, a head element is on the stack of
\* open elements, so the assertion of pop_until does not fail there; and
\* when the turn is over the stack holds the html element and nothing
\* else, whatever style, script or Text nodes were open above head.
C40_HeadClosingLeavesHtml ==
    [][HeadClosingTurn =>
          /\ OnStack("Head")
          /\ panic_msg' # "stack doesn't have an element"
          /\ pc' # "panicked" =>
                /\ Len(stack_of_open_elements') = 1
                /\ element_kind(nodes'[stack_of_open_elements'[1]]) = "Html"]_vars

\* "<script>x<p>": the start tag p ends the Text mode, and InHead has
\* closed head with script and the Text node of x open above it
C40_Witness ==
    /\ written.pieces = <<Open(tag_script), <<"x">>, Open(tag_p)>>
    /\ mode = "AfterHead"
    /\ IsStartTag(token, tag_p)
    /\ Len(stack_of_open_elements) = 1
    /\ \E n \in 1..Len(nodes) :
          /\ element_kind(nodes[n]) = "Script"
          /\ element_kind(nodes[nodes[n].parent]) = "Head"
          /\ nodes[n].first_child # 0
          /\ nodes[nodes[n].first_child].text = <<"x">>

(***************************************************************************)
(* Property of the helpers that build the tokenizer's token.               *)
(***************************************************************************)
\* C30: start_new_attribute, append_attribute and set_self_closing_flag
\* are only applied while the token under construction is a StartTag: an
\* end tag followed by attribute text or by "/" is tokenized as an EndTag
\* and the run does not abort.
C30_HelpersOnlyOnStartTag ==
    pc = "panicked" =>
        panic_msg \notin {"start_new_attribute", "append_attribute",
                          "set_self_closing_flag"}

(***************************************************************************)
(* The Text arm of compute_size applied to a Text box of any font size.    *)
(***************************************************************************)
MaxBoxLen == 6   \* characters of the text of the box

FontSizes == {"Medium", "XLarge", "XXLarge"}

TextBoxes ==
    {[kind |-> "text_box", text |-> x, font_size |-> f] :
        x \in UNION {[1..k -> {"a", " "}] : k \in 0..MaxBoxLen},
        f \in FontSizes}

InitTextSize ==
    /\ written \in TextBoxes
    /\ layout = [pc |-> "compute_size", text |-> written.text,
                 font_size |-> written.font_size,
                 size |-> LayoutSize_new(0, 0)]
    /\ css = Idle
    /\ url = Idle
    /\ t = HtmlTokenizer_new(<<>>)
    /\ tokens = <<>>
    /\ result = [type |-> "NoCall"]
    /\ pc = "idle"
    /\ panic_msg = ""
    /\ ParserIdle

\* compute_size of a LayoutObject of kind Text
ComputeTextSize ==
    /\ layout.pc = "compute_size"
    /\ layout' = [layout EXCEPT
                     !.pc = "sized",
                     !.size = text_size(layout.text, layout.font_size)]
    /\ UNCHANGED <<written, t, tokens, result, pc, panic_msg, parserVars,
                   css, url>>

NextTextSize == ComputeTextSize

SpecTextSize == InitTextSize /\ [][NextTextSize]_vars

Ratio(f) == CASE f = "Medium" -> 1 [] f = "XLarge" -> 2 [] f = "XXLarge" -> 3

\* the least number of lines of the content area that hold the width w
Lines(w) ==
    CHOOSE n \in 0..w : /\ n * CONTENT_AREA_WIDTH >= w
                        /\ \A m \in 0..(n - 1) : m * CONTENT_AREA_WIDTH < w

\* C38 as claimed: the width u of the text at ratio 1 decides; a text with
\* u within the content area is one line of width u, a wider one has the
\* width of the content area and ceil(u / content area) lines of the
\* font's line height
C38_WrapsByUnscaledWidth ==
    layout.pc = "sized" =>
        LET u == CHAR_WIDTH * Len(layout.text)
            ratio == Ratio(layout.font_size)
        IN  IF u <= CONTENT_AREA_WIDTH
            THEN /\ layout.size.width = u
                 /\ layout.size.height = ratio * CHAR_HEIGHT_WITH_PADDING
            ELSE /\ layout.size.width = CONTENT_AREA_WIDTH
                 /\ layout.size.height =
                        Lines(u) * ratio * CHAR_HEIGHT_WITH_PADDING

\* C38: for a Text box at any font size the width s of the text scaled by
\* the font's ratio decides: a text with s within the content area is one
\* line of width s, a wider one has the width of the content area and
\* ceil(s / content area) lines, and a line is ratio times the character
\* height with padding high
C38_WrapsByScaledWidth ==
    layout.pc = "sized" =>
        LET ratio == Ratio(layout.font_size)
            s == CHAR_WIDTH * ratio * Len(layout.text)
        IN  IF s <= CONTENT_AREA_WIDTH
            THEN /\ layout.size.width = s
                 /\ layout.size.height = ratio * CHAR_HEIGHT_WITH_PADDING
            ELSE /\ layout.size.width = CONTENT_AREA_WIDTH
                 /\ layout.size.height =
                        Lines(s) * ratio * CHAR_HEIGHT_WITH_PADDING

\* a text that fits at ratio 1 and is wrapped at the ratio of its font
C38_Witness ==
    /\ layout.pc = "sized"
    /\ layout.font_size = "XLarge"
    /\ CHAR_WIDTH * Len(layout.text) <= CONTENT_AREA_WIDTH
    /\ layout.size.width = CONTENT_AREA_WIDTH
    /\ layout.size.height > 2 * CHAR_HEIGHT_WITH_PADDING


=============================================================================
